---------------------------- MODULE Spec2Model ----------------------------
(***************************************************************************)
(* Coin Collector: the authoritative game server (src/server/server.js,    *)
(* src/server/config.js) as a state machine.                               *)
(*                                                                         *)
(* Time is Date.now() in whole milliseconds, counted from server start.    *)
(* Positions are JavaScript numbers; here they are integers in units of    *)
(* 1/Scale of a world unit, so that the diagonal step 6/sqrt(2) has a      *)
(* representation (rounded to the nearest 1/Scale).                        *)
(* uuidv4() is modelled by a counter: ids are fresh and, because JavaScript*)
(* iterates string keys in insertion order, "for (pid in players)" scans   *)
(* in ascending id order.                                                  *)
(***************************************************************************)
EXTENDS Integers, Sequences, FiniteSets, TLC

\* ------------------------------------------------------------ config.js
TICK_RATE == 20
LATENCY_MS == 200
LATENCY_JITTER_MS == 10
MAP_WIDTH == 800
MAP_HEIGHT == 600
PLAYER_SPEED == 120
PICKUP_RADIUS == 16
COIN_SPAWN_INTERVAL_MS == 2500
MAX_COINS == 10
SNAPSHOT_BROADCAST_RATE == 1
MAX_PLAYERS == 8

\* ------------------------------------------------------------ server.js
MS_PER_TICK == 1000 \div TICK_RATE
ONE_WAY_LATENCY == LATENCY_MS
LATENCY_JITTER == LATENCY_JITTER_MS
MAP_W == MAP_WIDTH
MAP_H == MAP_HEIGHT
\* the entity radius of the clamp "Math.max(0 + 8, Math.min(MAP_W - 8, p.x))"
ENTITY_RADIUS == 8
\* "const margin = 20" of maybeSpawnCoin, and the 20 of the player spawn
SPAWN_MARGIN == 20
\* "if (now - p.lastSeen > 60000)"
INACTIVITY_MS == 60000
\* "setInterval(sortQueues, 200)"
SORT_PERIOD_MS == 200

\* client.js
CLIENT_PLAYER_SPEED == 120
CLIENT_SEND_RATE == 50
INTERPOLATION_DELAY == 220
SNAPSHOT_BUFFER_MS == 2000
\* the canvas of index.html, taken to be of the size of the map
CANVAS_W == MAP_W
CANVAS_H == MAP_H
\* the connection of the browser tab
ClientWs == 1

\* resolution of positions: 1/Scale of a world unit
Scale == 10 * 100

\* sockets.set(ws, null): the connection has not joined
NoPlayer == 0

VARIABLES
  now,            \* Date.now()
  players,        \* playerId -> [x, y, score, lastInput, lastSeen]
  coins,          \* coinId -> [x, y]
  sockets,        \* Map ws -> playerId (NoPlayer for null)
  clients,        \* wss.clients, in insertion order
  readyState,     \* ws.readyState of every connection there has been
  incomingQueue,  \* << [deliverAt, ws, raw] >>
  outgoingQueue,  \* << [deliverAt, ws, packet] >>
  serverTick,
  lastCoinSpawn,
  nextId,         \* uuidv4(): the number of ids handed out so far
  lastSort,       \* when sortQueues last ran (its 200 ms timer's phase)
  \* ---- observation only (never read by an operation)
  lastDrain,      \* what the drain that produced this state removed, in order
  high,           \* largest deliverAt delivered so far, per queue
  msgCount,       \* client messages received so far
  joinedVia,      \* playerId -> the connection whose join created it
  accepted,       \* playerId -> the set of input seqs accepted from it
  scenario,       \* how much of <<1,2,2,1,5,4>> player 1 has been fed
  lastSpawned,    \* when a coin was last created (0: none yet)
  \* ---- client.js, one browser tab; its socket is connection ClientWs
  joined,
  myId,           \* NoPlayer for null
  inputSeq,
  currentInput,   \* [dx, dy]
  pendingInputs,  \* << [seq, dx, dy] >>
  localState,     \* [x, y, score]
  snapshotBuffer, \* << snapshot >>
  lastFrameTs,
  clockSkew,      \* the browser's Date.now() minus the server's
  \* ---- observation only
  renderTime,     \* the argument of the last getRemoteEntityPositions call
  positions       \* and its result

cvars == << joined, myId, inputSeq, currentInput, pendingInputs, localState,
            snapshotBuffer, lastFrameTs, clockSkew, renderTime, positions >>

vars == << now, players, coins, sockets, clients, readyState, incomingQueue,
           outgoingQueue, serverTick, lastCoinSpawn, nextId, lastSort,
           lastDrain, high, msgCount, joinedVia, accepted, scenario, lastSpawned,
           joined, myId, inputSeq, currentInput, pendingInputs, localState,
           snapshotBuffer, lastFrameTs, clockSkew, renderTime, positions >>

\* ------------------------------------------------------------ helpers
Max(a, b) == IF a >= b THEN a ELSE b
Min(a, b) == IF a <= b THEN a ELSE b

EmptyMap == [k \in {} |-> 0]

Remove(f, k) == [j \in DOMAIN f \ {k} |-> f[j]]

Put(f, k, v) == [j \in DOMAIN f \cup {k} |-> IF j = k THEN v ELSE f[j]]

\* the keys of an object in iteration order (ids are handed out ascending)
RECURSIVE SortedSeq(_)
SortedSeq(S) ==
  IF S = {} THEN << >>
  ELSE LET m == CHOOSE x \in S : \A y \in S : x <= y
       IN  << m >> \o SortedSeq(S \ {m})

Keys(f) == SortedSeq(DOMAIN f)

\* Array.prototype.sort((a, b) => a.deliverAt - b.deliverAt): stable
RECURSIVE InsertByDeliverAt(_, _)
InsertByDeliverAt(q, e) ==
  IF q = << >> THEN << e >>
  ELSE IF q[Len(q)].deliverAt <= e.deliverAt THEN Append(q, e)
  ELSE Append(InsertByDeliverAt(SubSeq(q, 1, Len(q) - 1), e), q[Len(q)])

RECURSIVE SortByDeliverAt(_)
SortByDeliverAt(q) ==
  IF q = << >> THEN << >>
  ELSE InsertByDeliverAt(SortByDeliverAt(SubSeq(q, 1, Len(q) - 1)), q[Len(q)])

\* Math.floor((Math.random() - 0.5) * 2 * LATENCY_JITTER)
JitterRange == (0 - LATENCY_JITTER)..(LATENCY_JITTER - 1)

\* function sendWithLatency(ws, packet), with its random jitter given; enq
\* (the time of the call) is kept for observation only
sendWithLatency(out, t, ws, packet, jitter) ==
  Append(out, [deliverAt |-> t + ONE_WAY_LATENCY + jitter, ws |-> ws,
               packet |-> packet, enq |-> t])

\* function queueIncoming(ws, raw), with its random jitter given
queueIncoming(inq, t, ws, raw, jitter) ==
  Append(inq, [deliverAt |-> t + ONE_WAY_LATENCY + jitter, ws |-> ws,
               raw |-> raw, enq |-> t])

\* ------------------------------------------------------------ packets
\* Object.values(players).map(p => ({ id, name, x, y, score }))
PlayerList(ps) ==
  [i \in 1..Len(Keys(ps)) |->
     [id |-> Keys(ps)[i], x |-> ps[Keys(ps)[i]].x, y |-> ps[Keys(ps)[i]].y,
      score |-> ps[Keys(ps)[i]].score]]

\* a player list that leaves the acknowledgement at 0
SnapshotPlayersUnacked(ps) ==
  [i \in 1..Len(Keys(ps)) |->
     [id |-> Keys(ps)[i], x |-> ps[Keys(ps)[i]].x, y |-> ps[Keys(ps)[i]].y,
      score |-> ps[Keys(ps)[i]].score,
      lastInputSeq |-> 0]]
\* Object.values(players).map(p => ({ id, name, x, y, score, lastInputSeq }))
SnapshotPlayers(ps) ==
  [i \in 1..Len(Keys(ps)) |->
     [id |-> Keys(ps)[i], x |-> ps[Keys(ps)[i]].x, y |-> ps[Keys(ps)[i]].y,
      score |-> ps[Keys(ps)[i]].score,
      lastInputSeq |-> ps[Keys(ps)[i]].lastInput.seq]]

\* Object.values(coins)
CoinList(cs) ==
  [i \in 1..Len(Keys(cs)) |->
     [id |-> Keys(cs)[i], x |-> cs[Keys(cs)[i]].x, y |-> cs[Keys(cs)[i]].y]]

\* ------------------------------------------------------------ messages
\* What a client may put on the wire.  JSON.parse throws on "#garbage";
\* "#null" parses to a value that is no object with a string type.
JSONparse(raw) ==
  IF raw.type = "#garbage" THEN [ok |-> FALSE]
  ELSE IF raw.type = "#null" THEN [ok |-> TRUE, typed |-> FALSE]
  ELSE [ok |-> TRUE, typed |-> TRUE, msg |-> raw]

\* Math.max(-1, Math.min(1, Number(v) || 0))
ClampIntent(v) == Max(0 - 1, Min(1, v))

Scenario == << 1, 2, 2, 1, 5, 4 >>

\* the observer of Scenario: the position reached while the inputs fed to a
\* player are exactly a prefix of Scenario, -1 once they are not
ScenarioStep(k, seq) ==
  IF k >= 0 /\ k < Len(Scenario) /\ Scenario[k + 1] = seq THEN k + 1 ELSE 0 - 1

\* handleClientMessage, type 'join' (S: the server state it reads and writes;
\* t: Date.now(); r: the random numbers it draws)
HandleJoinUnchecked(S, ws, t, r) ==
  LET id == S.nextId + 1
      ps == Put(S.players, id,
                [x |-> r.x, y |-> r.y, score |-> 0,
                 lastInput |-> [seq |-> 0, dx |-> 0, dy |-> 0],
                 lastSeen |-> t])
  IN  [S EXCEPT !.nextId = id,
                !.players = ps,
                !.sockets = Put(S.sockets, ws, id),
                !.joinedVia = Put(S.joinedVia, id, ws),
                !.accepted = Put(S.accepted, id, {}),
                !.scenario = Put(S.scenario, id, 0),
                !.out = sendWithLatency(S.out, t, ws,
                   [type |-> "join_ack", id |-> id, serverTime |-> t,
                    map |-> [width |-> MAP_W, height |-> MAP_H],
                    players |-> PlayerList(ps),
                    coins |-> CoinList(S.coins)], r.jitter)]

\* handleClientMessage, type 'join'
HandleJoin(S, ws, t, r) ==
  IF Cardinality(DOMAIN S.players) >= MAX_PLAYERS
  THEN [S EXCEPT !.out = sendWithLatency(S.out, t, ws,
                   [type |-> "join_reject", reason |-> "server_full"], r.jitter)]
  ELSE LET id == S.nextId + 1
           ps == Put(S.players, id,
                     [x |-> r.x, y |-> r.y, score |-> 0,
                      lastInput |-> [seq |-> 0, dx |-> 0, dy |-> 0],
                      lastSeen |-> t])
       IN  [S EXCEPT !.nextId = id,
                     !.players = ps,
                     !.sockets = Put(S.sockets, ws, id),
                     !.joinedVia = Put(S.joinedVia, id, ws),
                     !.accepted = Put(S.accepted, id, {}),
                     !.scenario = Put(S.scenario, id, 0),
                     !.out = sendWithLatency(S.out, t, ws,
                        [type |-> "join_ack", id |-> id, serverTime |-> t,
                         map |-> [width |-> MAP_W, height |-> MAP_H],
                         players |-> PlayerList(ps),
                         coins |-> CoinList(S.coins)], r.jitter)]

\* (mutant) a duplicate of the last accepted seq is not stale
IsStaleStrict(seq, last) == seq < last

\* the stale-input test "if (seq <= players[pid].lastInput.seq) return"
IsStale(seq, last) == seq <= last

\* handleClientMessage, type 'input'
HandleInput(S, ws, msg, t) ==
  LET pid == IF ws \in DOMAIN S.sockets THEN S.sockets[ws] ELSE NoPlayer
  IN  IF pid = NoPlayer \/ pid \notin DOMAIN S.players THEN S
      ELSE LET seq == msg.seq
               dx  == ClampIntent(msg.dx)
               dy  == ClampIntent(msg.dy)
               fed == [S EXCEPT !.scenario[pid] = ScenarioStep(@, seq)]
           IN  IF IsStale(seq, S.players[pid].lastInput.seq) THEN fed
               ELSE [fed EXCEPT
                       !.players[pid].lastInput =
                          [seq |-> seq, dx |-> dx, dy |-> dy],
                       !.players[pid].lastSeen = t,
                       !.accepted[pid] = @ \cup {seq}]

\* handleClientMessage, type 'ping'
HandlePing(S, ws, msg, t, r) ==
  [S EXCEPT !.out = sendWithLatency(S.out, t, ws,
      [type |-> "pong", ts |-> msg.ts, serverTime |-> t], r.jitter)]

\* function handleClientMessage(ws, msg)
handleClientMessage(S, ws, p, t, r) ==
  IF ~p.typed THEN S
  ELSE IF p.msg.type = "join" THEN HandleJoin(S, ws, t, r)
  ELSE IF p.msg.type = "input" THEN HandleInput(S, ws, p.msg, t)
  ELSE IF p.msg.type = "ping" THEN HandlePing(S, ws, p.msg, t, r)
  ELSE S

\* (mutant) a payload that does not parse is answered with an error packet
DeliverIncomingReply(S, item, t, r) ==
  LET p == JSONparse(item.raw)
  IN  IF p.ok THEN handleClientMessage(S, item.ws, p, t, r)
      ELSE [S EXCEPT !.out = sendWithLatency(S.out, t, item.ws,
                                [type |-> "error"], r.jitter)]

\* the body of processIncomingQueue's loop: try { JSON.parse; handle } catch {}
DeliverIncoming(S, item, t, r) ==
  LET p == JSONparse(item.raw)
  IN  IF p.ok THEN handleClientMessage(S, item.ws, p, t, r) ELSE S

\* (mutant) the loop drains whatever is queued
HeadDueAlways(q, t) == q # << >>

\* the loop test "queue.length && queue[0].deliverAt <= now"
HeadDue(q, t) == q # << >> /\ q[1].deliverAt <= t

\* how many times the loop runs: entries are shifted while the head is due
RECURSIVE DueCount(_, _)
DueCount(q, t) == IF HeadDue(q, t) THEN 1 + DueCount(Tail(q), t) ELSE 0

\* the while loop of processIncomingQueue
RECURSIVE DrainIncoming(_, _, _, _, _)
DrainIncoming(S, q, t, rnd, k) ==
  IF HeadDue(q, t)
  THEN DrainIncoming(DeliverIncoming(S, Head(q), t, rnd[k]), Tail(q), t, rnd, k + 1)
  ELSE S

\* ------------------------------------------------------------ game tick
MoveDist == (PLAYER_SPEED * Scale) \div TICK_RATE

\* moveDist / Math.hypot(1, 1), to the nearest 1/Scale
DiagStep ==
  CHOOSE d \in 0..MoveDist :
    /\ (2 * d - 1) * (2 * d - 1) <= 2 * MoveDist * MoveDist
    /\ 2 * MoveDist * MoveDist < (2 * d + 1) * (2 * d + 1)

\* ndx * moveDist for an intent (dx, dy) with components in {-1, 0, 1}:
\* normalised by Math.hypot(dx, dy) when that is > 0.0001
StepAlong(d, other) ==
  IF d = 0 THEN 0
  ELSE IF other = 0 THEN d * MoveDist
  ELSE d * DiagStep

\* (mutant) maxAllowedMove = 0.8 moveDist
ClampMoveTight(d) == Max(0 - ((8 * MoveDist) \div 10), Min((8 * MoveDist) \div 10, d))

\* Math.max(-maxAllowedMove, Math.min(maxAllowedMove, dx)), maxAllowedMove = 1.2 moveDist
ClampMove(d) == Max(0 - ((12 * MoveDist) \div 10), Min((12 * MoveDist) \div 10, d))

\* (mutant) the clamp to the map is missing
NoClampToMap(v, size) == v

\* Math.max(0 + 8, Math.min(MAP_W - 8, p.x))
ClampToMap(v, size) ==
  Max(ENTITY_RADIUS * Scale, Min((size - ENTITY_RADIUS) * Scale, v))

\* step 1 of gameTick for one player
MovePlayer(p) ==
  [p EXCEPT
     !.x = ClampToMap(p.x + ClampMove(StepAlong(p.lastInput.dx, p.lastInput.dy)), MAP_W),
     !.y = ClampToMap(p.y + ClampMove(StepAlong(p.lastInput.dy, p.lastInput.dx)), MAP_H)]

Abs(v) == IF v < 0 THEN 0 - v ELSE v

\* dist2 <= PICKUP_RADIUS * PICKUP_RADIUS, the squares taken only when neither
\* coordinate alone is already out of reach (32-bit arithmetic)
InPickupRange(p, coin) ==
  LET ax == Abs(p.x - coin.x)
      ay == Abs(p.y - coin.y)
      r  == PICKUP_RADIUS * Scale
  IN  ax <= r /\ ay <= r /\ ax * ax + ay * ay <= r * r

\* (mutant) only the first player of the scan is tested
FirstOnly(ps, order, coin) ==
  IF order # << >> /\ InPickupRange(ps[Head(order)], coin) THEN Head(order)
  ELSE NoPlayer

\* the inner loop "for (const pid in players)" with its break: the first
\* player in scan order that is in range, NoPlayer when none is
RECURSIVE FirstInRange(_, _, _)
FirstInRange(ps, order, coin) ==
  IF order = << >> THEN NoPlayer
  ELSE IF InPickupRange(ps[Head(order)], coin) THEN Head(order)
  ELSE FirstInRange(ps, Tail(order), coin)

\* (mutant) no break: every player in range is awarded the coin
RECURSIVE AwardAll(_, _, _)
AwardAll(ps, order, coin) ==
  IF order = << >> THEN ps
  ELSE AwardAll(IF InPickupRange(ps[Head(order)], coin)
                THEN [ps EXCEPT ![Head(order)].score = @ + 1] ELSE ps,
                Tail(order), coin)

RECURSIVE ResolveCoinsNoBreak(_, _, _)
ResolveCoinsNoBreak(ps, cs, order) ==
  IF order = << >> THEN [players |-> ps, coins |-> cs]
  ELSE IF FirstInRange(ps, Keys(ps), cs[Head(order)]) = NoPlayer
       THEN ResolveCoinsNoBreak(ps, cs, Tail(order))
       ELSE ResolveCoinsNoBreak(AwardAll(ps, Keys(ps), cs[Head(order)]),
                                Remove(cs, Head(order)), Tail(order))

\* step 2 of gameTick: the outer loop "for (const coinId in coins)"
RECURSIVE ResolveCoins(_, _, _)
ResolveCoins(ps, cs, order) ==
  IF order = << >> THEN [players |-> ps, coins |-> cs]
  ELSE LET by == FirstInRange(ps, Keys(ps), cs[Head(order)])
       IN  IF by = NoPlayer THEN ResolveCoins(ps, cs, Tail(order))
           ELSE ResolveCoins([ps EXCEPT ![by].score = @ + 1],
                             Remove(cs, Head(order)), Tail(order))

\* (mutant) no capacity test
maybeSpawnCoinUnchecked(cs, id, pos) == Put(cs, id, [x |-> pos[1], y |-> pos[2]])

\* function maybeSpawnCoin(), with its random position given
maybeSpawnCoin(cs, id, pos) ==
  IF Cardinality(DOMAIN cs) >= MAX_COINS THEN cs
  ELSE Put(cs, id, [x |-> pos[1], y |-> pos[2]])

\* (mutant) only the first client of wss.clients is served
BroadcastFirst(out, cl, rs, t, snap, jit) ==
  IF cl # << >> /\ rs[Head(cl)] = "OPEN"
  THEN sendWithLatency(out, t, Head(cl), snap, jit[Head(cl)])
  ELSE out

\* wss.clients.forEach(ws => if OPEN sendWithLatency(ws, snap))
RECURSIVE Broadcast(_, _, _, _, _, _)
Broadcast(out, cl, rs, t, snap, jit) ==
  IF cl = << >> THEN out
  ELSE Broadcast(IF rs[Head(cl)] = "OPEN"
                 THEN sendWithLatency(out, t, Head(cl), snap, jit[Head(cl)])
                 ELSE out,
                 Tail(cl), rs, t, snap, jit)

\* what client.js sends
Ping == [type |-> "ping", ts |-> 0]
Join == [type |-> "join"]
Input(seq, dx, dy) == [type |-> "input", seq |-> seq, dx |-> dx, dy |-> dy]

\* ------------------------------------------------------------ client.js
\* d / Math.hypot(1, 1), to the nearest 1/Scale
DiagOf(d) ==
  CHOOSE k \in 0..d :
    /\ (2 * k - 1) * (2 * k - 1) <= 2 * d * d
    /\ 2 * d * d < (2 * k + 1) * (2 * k + 1)

\* ndx * PLAYER_SPEED * dt for an intent (a, b) in {-1, 0, 1}^2, where d is
\* PLAYER_SPEED * dt
ClientStepAlong(a, b, d) ==
  IF a = 0 THEN 0 ELSE IF b = 0 THEN a * d ELSE a * DiagOf(d)

\* PLAYER_SPEED * dt for a dt of ms milliseconds
ClientDist(ms) == (CLIENT_PLAYER_SPEED * ms * Scale) \div 1000

\* (snapshot.players || []).find(p => p.id === myId): its index, 0 for none
FindPlayer(list, id) ==
  IF \E i \in 1..Len(list) : list[i].id = id
  THEN CHOOSE i \in 1..Len(list) :
         list[i].id = id /\ \A j \in 1..(i - 1) : list[j].id # id
  ELSE 0

\* (mutant) every pending input is dropped
DropAll(pend, ack) == << >>

\* while (pendingInputs.length && pendingInputs[0].seq <= ackSeq) shift()
RECURSIVE DropAcked(_, _)
DropAcked(pend, ack) ==
  IF pend # << >> /\ Head(pend).seq <= ack THEN DropAcked(Tail(pend), ack)
  ELSE pend

\* "for (const pi of pendingInputs)": each is re-applied for CLIENT_SEND_RATE
RECURSIVE Replay(_, _)
Replay(st, pend) ==
  IF pend = << >> THEN st
  ELSE Replay([st EXCEPT
                 !.x = @ + ClientStepAlong(Head(pend).dx, Head(pend).dy,
                                           ClientDist(CLIENT_SEND_RATE)),
                 !.y = @ + ClientStepAlong(Head(pend).dy, Head(pend).dx,
                                           ClientDist(CLIENT_SEND_RATE))],
              Tail(pend))

\* dx*dx + dy*dy > 0.0001, the squares taken only when they are small
\* (32-bit arithmetic)
FarApart(dx, dy) ==
  \/ Abs(dx) > Scale \div 100 \/ Abs(dy) > Scale \div 100
  \/ (dx * dx + dy * dy) * 10000 > Scale * Scale

\* function processSnapshotForReconciliation(snapshot); C: the client's state
processSnapshotForReconciliation(C, snapshot) ==
  LET i == FindPlayer(snapshot.players, C.myId)
  IN  IF ~C.joined \/ C.myId = NoPlayer \/ i = 0 THEN C
      ELSE LET serverPlayer == snapshot.players[i]
               pend == DropAcked(C.pendingInputs, serverPlayer.lastInputSeq)
               snapped == [C.localState EXCEPT !.x = serverPlayer.x,
                                               !.y = serverPlayer.y]
               st == IF FarApart(serverPlayer.x - C.localState.x,
                                 serverPlayer.y - C.localState.y)
                     THEN Replay(snapped, pend)
                     ELSE C.localState
           IN  [C EXCEPT !.pendingInputs = pend,
                         !.localState = [st EXCEPT !.score = serverPlayer.score]]

\* (mutant) nothing is evicted
KeepAll(buf, cutoff) == buf

\* function pushSnapshot(snap), at the browser's time t
RECURSIVE DropOld(_, _)
DropOld(buf, cutoff) ==
  IF buf # << >> /\ Head(buf).serverTime < cutoff THEN DropOld(Tail(buf), cutoff)
  ELSE buf

pushSnapshot(buf, snap, t) == DropOld(Append(buf, snap), t - SNAPSHOT_BUFFER_MS)

\* function handleServerMessage(msg), at the browser's time t
handleServerMessage(C, msg, t) ==
  IF msg.type = "join_ack"
  THEN LET i == FindPlayer(msg.players, msg.id)
       IN  [C EXCEPT !.myId = msg.id, !.joined = TRUE,
                     !.localState =
                        IF i = 0 THEN @
                        ELSE [x |-> msg.players[i].x, y |-> msg.players[i].y,
                              score |-> msg.players[i].score]]
  ELSE IF msg.type = "snapshot"
  THEN processSnapshotForReconciliation(
         [C EXCEPT !.snapshotBuffer = pushSnapshot(@, msg, t)], msg)
  ELSE C

\* function localPredictionStep(now): frame is the frame's timestamp, last the
\* previous one's, cur the intent of the keys held
localPredictionStep(st, cur, frame, last) ==
  [st EXCEPT
     !.x = Max(0, Min(CANVAS_W * Scale,
                      st.x + ClientStepAlong(cur.dx, cur.dy, ClientDist(frame - last)))),
     !.y = Max(0, Min(CANVAS_H * Scale,
                      st.y + ClientStepAlong(cur.dy, cur.dx, ClientDist(frame - last))))]

\* (mutant) no blend: the nearer of the two ends
lerpNearest(a, b, num, den) == IF 2 * num < den THEN a ELSE b

\* function lerp(a, b, t) for t = num / den, to 1/Scale
lerp(a, b, num, den) == a + ((b - a) * num) \div den

\* the ids of a snapshot's players
IdsOf(list) == {list[i].id : i \in 1..Len(list)}

\* "mapA[p.id] = p" for every p of the list: the last entry of an id
EntryOf(list, id) ==
  list[CHOOSE i \in 1..Len(list) :
         list[i].id = id /\ \A j \in (i + 1)..Len(list) : list[j].id # id]

\* positions[p.id] = { x: p.x, y: p.y, score: p.score } for a snapshot's players
KnownPositions(snap) ==
  [kind |-> "map",
   at |-> [id \in IdsOf(snap.players) |->
             [x |-> EntryOf(snap.players, id).x, y |-> EntryOf(snap.players, id).y,
              score |-> EntryOf(snap.players, id).score]]]

\* "a.serverTime <= renderTime && renderTime <= b.serverTime" for the pair
\* (buf[i], buf[i + 1])
Brackets(buf, i, rt) == buf[i].serverTime <= rt /\ rt <= buf[i + 1].serverTime

\* the search loop with its break: the first bracketing pair, 0 for s0Index -1
FirstBracket(buf, rt) ==
  IF \E i \in 1..(Len(buf) - 1) : Brackets(buf, i, rt)
  THEN CHOOSE i \in 1..(Len(buf) - 1) :
         Brackets(buf, i, rt) /\ \A j \in 1..(i - 1) : ~Brackets(buf, j, rt)
  ELSE 0

\* the blend of the pair (a, b) at rt, for every id of either
Blend(a, b, rt) ==
  [kind |-> "map",
   at |-> [id \in IdsOf(a.players) \cup IdsOf(b.players) |->
     LET pa == IF id \in IdsOf(a.players) THEN EntryOf(a.players, id)
               ELSE [x |-> 0, y |-> 0, score |-> 0]
         pb == IF id \in IdsOf(b.players) THEN EntryOf(b.players, id) ELSE pa
         num == rt - a.serverTime
         den == Max(1, b.serverTime - a.serverTime)
     IN  [x |-> lerp(pa.x, pb.x, num, den),
          y |-> lerp(pa.y, pb.y, num, den),
          score |-> IF pb.score # 0 THEN pb.score ELSE pa.score]]]

\* function getRemoteEntityPositions(renderTime)
getRemoteEntityPositions(buf, rt) ==
  IF buf = << >> THEN [kind |-> "null"]
  ELSE IF FirstBracket(buf, rt) = 0 THEN KnownPositions(buf[Len(buf)])
  ELSE Blend(buf[FirstBracket(buf, rt)], buf[FirstBracket(buf, rt) + 1], rt)


\* ------------------------------------------------------------ state machine
\* getRemoteEntityPositions has not been called
NoPositions == [kind |-> "none"]

\* lastDrain when the last operation was no drain
NoDrain == [q |-> "none", floor |-> 0, entries |-> << >>]

\* client.js after load: not connected; canvas centre; nothing rendered yet
InitClient ==
  /\ joined = FALSE
  /\ myId = NoPlayer
  /\ inputSeq = 0
  /\ currentInput = [dx |-> 0, dy |-> 0]
  /\ pendingInputs = << >>
  /\ localState = [x |-> (CANVAS_W \div 2) * Scale, y |-> (CANVAS_H \div 2) * Scale,
                   score |-> 0]
  /\ snapshotBuffer = << >>
  /\ lastFrameTs = 0
  /\ renderTime = 0
  /\ positions = NoPositions

\* server.js after load
InitServer ==
  /\ now = 0
  /\ players = EmptyMap
  /\ coins = EmptyMap
  /\ sockets = EmptyMap
  /\ clients = << >>
  /\ readyState = EmptyMap
  /\ incomingQueue = << >>
  /\ outgoingQueue = << >>
  /\ serverTick = 0
  /\ lastCoinSpawn = 0
  /\ nextId = 0
  /\ lastSort = 0
  /\ lastDrain = NoDrain
  /\ high = [in |-> 0, out |-> 0]
  /\ msgCount = 0
  /\ joinedVia = EmptyMap
  /\ accepted = EmptyMap
  /\ scenario = EmptyMap
  /\ lastSpawned = 0

\* both on one machine: the browser's clock is the server's
Init == InitServer /\ InitClient /\ clockSkew = 0

\* wss.on('connection', ws => ...).  C: the connections that may ever be
\* opened; they are interchangeable, so they are opened in ascending order.
Connect(C, J) ==
  \E ws \in C, jitter \in J :
    /\ ws \notin DOMAIN readyState
    /\ \A w \in C : w < ws => w \in DOMAIN readyState
    /\ readyState' = Put(readyState, ws, "OPEN")
    /\ clients' = Append(clients, ws)
    /\ sockets' = Put(sockets, ws, NoPlayer)
    /\ outgoingQueue' = sendWithLatency(outgoingQueue, now, ws,
                           [type |-> "welcome", serverTime |-> now], jitter)
    /\ UNCHANGED cvars
    /\ UNCHANGED lastSpawned
    /\ lastDrain' = NoDrain
    /\ UNCHANGED << now, players, coins, incomingQueue, serverTick, lastCoinSpawn,
                    nextId, lastSort, high, msgCount, joinedVia,
                    accepted, scenario >>

\* function sortQueues()
SortedIn(q) == SortByDeliverAt(q)
SortedOut(q) == SortByDeliverAt(q)

NoCap == 0 - 1

\* ws.on('message', raw => { queueIncoming(ws, raw); sortQueues(); })
Receive(ws, raw, jitter) ==
  /\ incomingQueue' = SortedIn(queueIncoming(incomingQueue, now, ws, raw, jitter))
  /\ outgoingQueue' = SortedOut(outgoingQueue)
  /\ UNCHANGED lastSpawned
  /\ lastDrain' = NoDrain
  /\ UNCHANGED << now, players, coins, sockets, clients, readyState, serverTick,
                  lastCoinSpawn, nextId, lastSort, high, joinedVia,
                  accepted, scenario >>

\* a message from a connection whose client is not modelled (at most maxMsgs
\* messages ever, unless that is NoCap, and at most maxQueue waiting at a time)
OnMessage(Raws, J, maxMsgs, maxQueue) ==
  \E ws \in DOMAIN readyState, jitter \in J : \E raw \in Raws[ws] :
    /\ readyState[ws] \in {"OPEN", "CLOSING"}
    /\ maxMsgs # NoCap => msgCount < maxMsgs
    /\ Len(incomingQueue) < maxQueue
    /\ msgCount' = IF maxMsgs = NoCap THEN msgCount ELSE msgCount + 1
    /\ Receive(ws, raw, jitter)
    /\ UNCHANGED cvars

\* ws.on('close', () => ...); the ws library also drops ws from wss.clients
OnClose ==
  \E ws \in DOMAIN readyState :
    /\ readyState[ws] \in {"OPEN", "CLOSING"}
    /\ readyState' = [readyState EXCEPT ![ws] = "CLOSED"]
    /\ clients' = SelectSeq(clients, LAMBDA w : w # ws)
    /\ sockets' = Remove(sockets, ws)
    /\ players' = IF ws \in DOMAIN sockets /\ sockets[ws] # NoPlayer
                     /\ sockets[ws] \in DOMAIN players
                  THEN Remove(players, sockets[ws])
                  ELSE players
    /\ UNCHANGED cvars
    /\ UNCHANGED lastSpawned
    /\ lastDrain' = NoDrain
    /\ UNCHANGED << now, coins, incomingQueue, outgoingQueue, serverTick,
                    lastCoinSpawn, nextId, lastSort, high, msgCount,
                    joinedVia, accepted, scenario >>

\* setInterval(sortQueues, 200); the timer's phase is kept only where the
\* clock is held to it (track)
SortQueues(track) ==
  /\ incomingQueue' = SortedIn(incomingQueue)
  /\ outgoingQueue' = SortedOut(outgoingQueue)
  /\ lastSort' = IF track THEN now ELSE lastSort
  /\ UNCHANGED cvars
  /\ UNCHANGED lastSpawned
  /\ lastDrain' = NoDrain
  /\ UNCHANGED << now, players, coins, sockets, clients, readyState, serverTick,
                  lastCoinSpawn, nextId, high, msgCount, joinedVia,
                  accepted, scenario >>

\* the largest deliverAt among the entries of a drain that were delivered
RECURSIVE HighWater(_, _)
HighWater(h, es) ==
  IF es = << >> THEN h
  ELSE HighWater(IF Head(es).sent THEN Max(h, Head(es).deliverAt) ELSE h, Tail(es))

\* "if (item.ws.readyState === WebSocket.OPEN) item.ws.send(...)"
\* (mutant) the readyState test is missing
IsSentAlways(rs, item) == TRUE

\* if (item.ws.readyState === WebSocket.OPEN) item.ws.send(...)
\* a flush that drops what it shifts
IsSentNever(rs, item) == FALSE
IsSent(rs, item) == rs[item.ws] = "OPEN"

\* setInterval(() => { while (head due) { shift; send if OPEN } }, 10)
Flush ==
  LET n == DueCount(outgoingQueue, now)
      drained == [i \in 1..n |->
                    [deliverAt |-> outgoingQueue[i].deliverAt,
                     ws |-> outgoingQueue[i].ws,
                     type |-> outgoingQueue[i].packet.type,
                     packet |-> outgoingQueue[i].packet,
                     sent |-> IsSent(readyState, outgoingQueue[i])]]
  IN  /\ outgoingQueue' = SubSeq(outgoingQueue, n + 1, Len(outgoingQueue))
      /\ UNCHANGED lastSpawned
      /\ lastDrain' = [q |-> "out", floor |-> high.out, entries |-> drained]
      /\ high' = [high EXCEPT !.out = HighWater(@, drained)]
      /\ UNCHANGED << now, players, coins, sockets, clients, readyState,
                      incomingQueue, serverTick, lastCoinSpawn, nextId, lastSort,
                      msgCount, joinedVia, accepted, scenario >>

\* the flush, to connections whose client is not modelled
FlushOutgoing == Flush /\ UNCHANGED cvars

\* function processIncomingQueue(); R: what one handled message may draw at random
ProcessIncomingQueue(R) ==
  LET n == DueCount(incomingQueue, now)
      drained == [i \in 1..n |->
                    [deliverAt |-> incomingQueue[i].deliverAt,
                     ws |-> incomingQueue[i].ws,
                     type |-> incomingQueue[i].raw.type,
                     handed |-> JSONparse(incomingQueue[i].raw).ok,
                     sent |-> TRUE]]
      S0 == [players |-> players, coins |-> coins, sockets |-> sockets,
             out |-> outgoingQueue, nextId |-> nextId, joinedVia |-> joinedVia,
             accepted |-> accepted, scenario |-> scenario]
  IN  \E rnd \in [1..n -> R] :
        LET S == DrainIncoming(S0, incomingQueue, now, rnd, 1)
        IN  /\ incomingQueue' = SubSeq(incomingQueue, n + 1, Len(incomingQueue))
            /\ players' = S.players
            /\ sockets' = S.sockets
            /\ outgoingQueue' = S.out
            /\ nextId' = S.nextId
            /\ joinedVia' = S.joinedVia
            /\ accepted' = S.accepted
            /\ scenario' = S.scenario
            /\ UNCHANGED cvars
            /\ UNCHANGED lastSpawned
            /\ lastDrain' = [q |-> "in", floor |-> high.in, entries |-> drained]
            /\ high' = [high EXCEPT !.in = HighWater(@, drained)]
            /\ UNCHANGED << now, coins, clients, readyState, serverTick,
                            lastCoinSpawn, lastSort, msgCount >>

\* function gameTick(); J: jitter samples, CS: coin spawn positions
GameTick(J, CS, maxTicks, paced) ==
  \E jit \in [DOMAIN readyState -> J], pos \in CS :
    LET moved == [p \in DOMAIN players |-> MovePlayer(players[p])]
        res   == ResolveCoins(moved, coins, Keys(coins))
        due   == now - lastCoinSpawn >= COIN_SPAWN_INTERVAL_MS
        cs2   == IF due THEN maybeSpawnCoin(res.coins, nextId + 1, pos)
                 ELSE res.coins
        snap  == [type |-> "snapshot", serverTick |-> serverTick + 1,
                  serverTime |-> now, players |-> SnapshotPlayers(res.players),
                  coins |-> CoinList(cs2)]
    IN  /\ serverTick < maxTicks
        /\ paced => now >= (serverTick + 1) * MS_PER_TICK
        /\ serverTick' = serverTick + 1
        /\ players' = res.players
        /\ coins' = cs2
        /\ nextId' = IF DOMAIN cs2 # DOMAIN res.coins THEN nextId + 1 ELSE nextId
        /\ lastCoinSpawn' = IF due THEN now ELSE lastCoinSpawn
        /\ outgoingQueue' =
             IF (serverTick + 1) % SNAPSHOT_BROADCAST_RATE = 0
             THEN Broadcast(outgoingQueue, clients, readyState, now, snap, jit)
             ELSE outgoingQueue
        /\ UNCHANGED cvars
        /\ lastSpawned' = IF DOMAIN cs2 # DOMAIN res.coins THEN now ELSE lastSpawned
        /\ lastDrain' = NoDrain
        /\ UNCHANGED << now, sockets, clients, readyState, incomingQueue, lastSort,
                        high, msgCount, joinedVia, accepted, scenario >>

\* (mutant) a player idle for exactly 60 s is swept too
IsIdleInclusive(t, p) == t - p.lastSeen >= INACTIVITY_MS

\* "if (now - p.lastSeen > 60000)"
IsIdle(t, p) == t - p.lastSeen > INACTIVITY_MS

\* the housekeeping interval: every idle player is deleted, and every socket
\* mapped to it is closed and deleted from the map; ws.close() on an open
\* socket leaves it CLOSING until its close event
Housekeeping ==
  LET idle == { pid \in DOMAIN players : IsIdle(now, players[pid]) }
      hit  == { ws \in DOMAIN sockets : sockets[ws] \in idle }
  IN  /\ players' = [pid \in DOMAIN players \ idle |-> players[pid]]
      /\ sockets' = [ws \in DOMAIN sockets \ hit |-> sockets[ws]]
      /\ readyState' = [ws \in DOMAIN readyState |->
                          IF ws \in hit /\ readyState[ws] = "OPEN" THEN "CLOSING"
                          ELSE readyState[ws]]
      /\ UNCHANGED cvars
      /\ UNCHANGED lastSpawned
      /\ lastDrain' = [q |-> "sweep", floor |-> 0, entries |-> << >>]
      /\ UNCHANGED << now, coins, clients, incomingQueue, outgoingQueue, serverTick,
                      lastCoinSpawn, nextId, lastSort, high, msgCount,
                      joinedVia, accepted, scenario >>

\* rl.on('line'): the console command 'spawn' calls maybeSpawnCoin(); CS: coin
\* positions, maxIds: the ids handed out before the operator stops typing
DebugSpawn(CS, maxIds) ==
  \E pos \in CS :
    /\ nextId < maxIds
    /\ coins' = maybeSpawnCoin(coins, nextId + 1, pos)
    /\ nextId' = IF DOMAIN coins' # DOMAIN coins THEN nextId + 1 ELSE nextId
    /\ UNCHANGED cvars
    /\ lastSpawned' = IF DOMAIN coins' # DOMAIN coins THEN now ELSE lastSpawned
    /\ lastDrain' = [q |-> "spawn", floor |-> Cardinality(DOMAIN coins), entries |-> << >>]
    /\ UNCHANGED << now, players, sockets, clients, readyState, incomingQueue,
                    outgoingQueue, serverTick, lastCoinSpawn, lastSort, high,
                    msgCount, joinedVia, accepted, scenario >>

\* ---- the browser tab on connection ClientWs
\* Date.now() in the browser
ClientNow == now + clockSkew

ClientState ==
  [joined |-> joined, myId |-> myId, pendingInputs |-> pendingInputs,
   localState |-> localState, snapshotBuffer |-> snapshotBuffer]

SetClient(C) ==
  /\ joined' = C.joined
  /\ myId' = C.myId
  /\ pendingInputs' = C.pendingInputs
  /\ localState' = C.localState
  /\ snapshotBuffer' = C.snapshotBuffer

\* ws.addEventListener('message', ...) for each of msgs in turn
RECURSIVE HandleAll(_, _, _)
HandleAll(C, msgs, t) ==
  IF msgs = << >> THEN C
  ELSE HandleAll(handleServerMessage(C, Head(msgs), t), Tail(msgs), t)

\* what the flush sends to ws, in order
RECURSIVE SentTo(_, _)
SentTo(ws, es) ==
  IF es = << >> THEN << >>
  ELSE (IF Head(es).sent /\ Head(es).ws = ws THEN << Head(es).packet >> ELSE << >>)
       \o SentTo(ws, Tail(es))

\* the flush, and the browser handling what it is sent
FlushToClient ==
  /\ Flush
  /\ SetClient(HandleAll(ClientState, SentTo(ClientWs, lastDrain'.entries), ClientNow))
  /\ UNCHANGED << inputSeq, currentInput, lastFrameTs, clockSkew, renderTime,
                  positions >>

\* a server message drawn from Msgs reaches the browser
ClientMessage(Msgs, maxBuffer) ==
  \E msg \in Msgs :
    /\ Len(snapshotBuffer) < maxBuffer
    /\ SetClient(handleServerMessage(ClientState, msg, ClientNow))
    /\ UNCHANGED << inputSeq, currentInput, lastFrameTs, clockSkew, renderTime,
                    positions >>
    /\ UNCHANGED lastSpawned
    /\ lastDrain' = NoDrain
    /\ UNCHANGED << now, players, coins, sockets, clients, readyState,
                    incomingQueue, outgoingQueue, serverTick, lastCoinSpawn,
                    nextId, lastSort, high, msgCount, joinedVia, accepted,
                    scenario >>

\* keydown / keyup: updateCurrentInputFromKeys()
KeyEvent(Intents) ==
  \E d \in Intents :
    /\ currentInput' = [dx |-> d[1], dy |-> d[2]]
    /\ currentInput' # currentInput
    /\ UNCHANGED << joined, myId, inputSeq, pendingInputs, localState,
                    snapshotBuffer, lastFrameTs, clockSkew, renderTime, positions >>
    /\ UNCHANGED lastSpawned
    /\ lastDrain' = NoDrain
    /\ UNCHANGED << now, players, coins, sockets, clients, readyState,
                    incomingQueue, outgoingQueue, serverTick, lastCoinSpawn,
                    nextId, lastSort, high, msgCount, joinedVia, accepted,
                    scenario >>

\* the input sender interval; wsSend reaches the server's 'message' handler
\* (at most maxSeq inputs; the k-th firing of the interval is not before
\* k * CLIENT_SEND_RATE)
SendInput(J, maxSeq) ==
  \E jitter \in J :
    /\ ClientWs \in DOMAIN readyState /\ readyState[ClientWs] = "OPEN"
    /\ joined
    /\ inputSeq < maxSeq
    /\ now >= (inputSeq + 1) * CLIENT_SEND_RATE
    /\ inputSeq' = inputSeq + 1
    /\ pendingInputs' = Append(pendingInputs,
          [seq |-> inputSeq + 1, dx |-> currentInput.dx, dy |-> currentInput.dy])
    /\ Receive(ClientWs, Input(inputSeq + 1, currentInput.dx, currentInput.dy), jitter)
    /\ UNCHANGED << msgCount, joined, myId, currentInput, localState,
                    snapshotBuffer, lastFrameTs, clockSkew, renderTime, positions >>

\* requestAnimationFrame(render): the prediction step, then the remote
\* positions at renderTime = Date.now() - INTERPOLATION_DELAY
Render ==
  /\ localState' = localPredictionStep(localState, currentInput, now, lastFrameTs)
  /\ lastFrameTs' = now
  /\ renderTime' = ClientNow - INTERPOLATION_DELAY
  /\ positions' = getRemoteEntityPositions(snapshotBuffer, ClientNow - INTERPOLATION_DELAY)
  /\ UNCHANGED << joined, myId, inputSeq, currentInput, pendingInputs,
                  snapshotBuffer, clockSkew >>
  /\ UNCHANGED lastSpawned
  /\ lastDrain' = [q |-> "render", floor |-> 0, entries |-> << >>]
  /\ UNCHANGED << now, players, coins, sockets, clients, readyState,
                  incomingQueue, outgoingQueue, serverTick, lastCoinSpawn,
                  nextId, lastSort, high, msgCount, joinedVia, accepted,
                  scenario >>

\* the clock moves on by one of Steps, up to maxT; with sortOnTime the 200 ms
\* sortQueues timer is never late, with drainOnTime the 5 ms inbound timer and
\* with flushOnTime the 10 ms outbound timer has run before the clock moves
\* past a due head
AdvanceTime(Steps, maxT, sortOnTime, drainOnTime, flushOnTime) ==
  \E d \in Steps :
    /\ now + d <= maxT
    /\ sortOnTime => now + d <= lastSort + SORT_PERIOD_MS
    /\ drainOnTime => ~HeadDue(incomingQueue, now)
    /\ flushOnTime => ~HeadDue(outgoingQueue, now)
    /\ now' = now + d
    /\ UNCHANGED cvars
    /\ UNCHANGED lastSpawned
    /\ lastDrain' = NoDrain
    /\ UNCHANGED << players, coins, sockets, clients, readyState, incomingQueue,
                    outgoingQueue, serverTick, lastCoinSpawn, nextId, lastSort,
                    high, msgCount, joinedVia, accepted, scenario >>

\* ------------------------------------------------------------ samples
\* Math.random() * (MAP_W - 40) + 20 and Math.random() * (MAP_H - 40) + 20
\* range over [20, MAP - 20); the samples below are drawn from that range.
SpawnLowX == SPAWN_MARGIN * Scale
SpawnHighX == (MAP_W - SPAWN_MARGIN) * Scale - 1
SpawnLowY == SPAWN_MARGIN * Scale
SpawnHighY == (MAP_H - SPAWN_MARGIN) * Scale - 1


\* the client (client.js) sends join once, and inputs only after it
NoJoinYet(ws) ==
  /\ ws \in DOMAIN sockets /\ sockets[ws] = NoPlayer
  /\ \A i \in 1..Len(incomingQueue) :
       incomingQueue[i].ws = ws => incomingQueue[i].raw.type # "join"

\* the client has joined and has not sent the input numbered seq yet
NoInputYet(ws, seq) ==
  /\ ws \in DOMAIN sockets /\ sockets[ws] \in DOMAIN players
  /\ players[sockets[ws]].lastInput.seq < seq
  /\ \A i \in 1..Len(incomingQueue) :
       incomingQueue[i].ws = ws => incomingQueue[i].raw.type # "input"

\* ------------------------------------------------------------ the delay queues
\* bounds of SpecQueue: connections, client messages, game ticks
ConnsQ == 1
MsgsQ == 2
TicksQ == 1

JitterQ == {0 - LATENCY_JITTER, 0 - 1}
RawsQ(ws) == {Ping}
DrawsQ == [jitter : JitterQ, x : {SpawnLowX}, y : {SpawnLowY}]
StepsQ == {ONE_WAY_LATENCY - LATENCY_JITTER, ONE_WAY_LATENCY - 1}
MaxTimeQ == 2 * ONE_WAY_LATENCY

NextQueue ==
  \/ Connect(1..ConnsQ, JitterQ)
  \/ OnMessage([ws \in DOMAIN readyState |-> RawsQ(ws)], JitterQ, MsgsQ, MsgsQ)
  \/ SortQueues(TRUE)
  \/ FlushOutgoing
  \/ ProcessIncomingQueue(DrawsQ)
  \/ GameTick(JitterQ, {<< SpawnLowX, SpawnLowY >>}, TicksQ, FALSE)
  \/ AdvanceTime(StepsQ, MaxTimeQ, TRUE, FALSE, FALSE)

\* timers on time: sortQueues runs at least every 200 ms
SpecQueue == Init /\ [][NextQueue]_vars

\* bounds of SpecDelay: client messages, game ticks
MsgsD == 1
TicksD == 1

\* both ends of the jitter range, and one value between
JitterD == {0 - LATENCY_JITTER, 0 - 1, LATENCY_JITTER - 1}

NextDelay ==
  \/ Connect({1}, JitterD)
  \/ OnMessage([ws \in DOMAIN readyState |-> RawsQ(ws)], JitterD, MsgsD, MsgsD)
  \/ OnClose
  \/ SortQueues(FALSE)
  \/ FlushOutgoing
  \/ ProcessIncomingQueue([jitter : JitterD, x : {SpawnLowX}, y : {SpawnLowY}])
  \/ GameTick(JitterD, {<< SpawnLowX, SpawnLowY >>}, TicksD, FALSE)
  \/ AdvanceTime(StepsQ, MaxTimeQ, FALSE, FALSE, FALSE)

\* timers free: every callback may run at any time, or late
SpecDelay == Init /\ [][NextDelay]_vars

\* ------------------------------------------------------------ claims C2..C4
DeliverAts(es) == [i \in 1..Len(es) |-> es[i].deliverAt]

NonDecreasing(seq) == \A i, j \in 1..Len(seq) : i < j => seq[i] <= seq[j]

SentOf(es) == SelectSeq(es, LAMBDA e : e.sent)

\* C2: on both delay queues messages are delivered in non-decreasing
\* deliverAt order: what a drain delivers is in order, and none of it has a
\* smaller deliverAt than a message delivered by an earlier drain.
C2_DeliveredInOrder ==
  lastDrain.q # "none" =>
    NonDecreasing(<< lastDrain.floor >> \o DeliverAts(SentOf(lastDrain.entries)))

\* the inbound half of C2 alone
C2_InboundInOrder ==
  lastDrain.q = "in" =>
    NonDecreasing(<< lastDrain.floor >> \o DeliverAts(SentOf(lastDrain.entries)))

NoneDue(q, t) == \A i \in 1..Len(q) : q[i].deliverAt > t

\* C3: immediately after a drain at time now, the drained queue holds no
\* entry with deliverAt <= now.
C3_DrainRemovesAllDue ==
  /\ lastDrain.q = "out" => NoneDue(outgoingQueue, now)
  /\ lastDrain.q = "in" => NoneDue(incomingQueue, now)

\* the inbound half of C3 alone
C3_InboundDrainRemovesAllDue ==
  lastDrain.q = "in" => NoneDue(incomingQueue, now)

InLatencyWindow(e) ==
  /\ e.enq + ONE_WAY_LATENCY - LATENCY_JITTER <= e.deliverAt
  /\ e.deliverAt <= e.enq + ONE_WAY_LATENCY + LATENCY_JITTER

\* C4: no message is delivered early: every queued entry's deliverAt lies in
\* [enqueue time + LATENCY - JITTER, enqueue time + LATENCY + JITTER], and
\* every entry a drain takes off a queue has deliverAt <= now.
C4_NeverEarly ==
  /\ \A i \in 1..Len(incomingQueue) : InLatencyWindow(incomingQueue[i])
  /\ \A i \in 1..Len(outgoingQueue) : InLatencyWindow(outgoingQueue[i])
  /\ \A i \in 1..Len(lastDrain.entries) : lastDrain.entries[i].deliverAt <= now

\* a flush has just sent a due entry past an unsorted queue: a later-due entry
\* stands before an earlier-due one behind it
C4_Witness ==
  /\ lastDrain.q = "out"
  /\ \E i \in 1..Len(lastDrain.entries) : lastDrain.entries[i].sent
  /\ ~NonDecreasing(DeliverAts(outgoingQueue))

\* ------------------------------------------------------------ input sequence numbers
\* bounds of SpecSeq: messages waiting in the inbound queue at a time, and
\* the time covered, in one-way latencies
QueueS == 1
RoundsS == 8

RawsS(ws) == IF NoJoinYet(ws) THEN {Join}
             ELSE { Input(seq, 1, 0) : seq \in {1, 2, 4, 5} }
DrawsS == [jitter : {0}, x : {SpawnLowX}, y : {SpawnLowY}]
MaxTimeS == RoundsS * ONE_WAY_LATENCY

NextSeq ==
  \/ Connect({1}, {0})
  \/ OnMessage([ws \in DOMAIN readyState |-> RawsS(ws)], {0}, NoCap, QueueS)
  \/ ProcessIncomingQueue(DrawsS)
  \/ FlushOutgoing
  \/ AdvanceTime({ONE_WAY_LATENCY}, MaxTimeS, FALSE, TRUE, TRUE)

SpecSeq == Init /\ [][NextSeq]_vars

\* the seqs of a sequence that exceed every seq before them (and 0)
RECURSIVE PrefixMaxima(_, _)
PrefixMaxima(seqs, last) ==
  IF seqs = << >> THEN {}
  ELSE IF Head(seqs) > last
       THEN {Head(seqs)} \cup PrefixMaxima(Tail(seqs), Head(seqs))
       ELSE PrefixMaxima(Tail(seqs), last)

SetMax(S) == IF S = {} THEN 0 ELSE CHOOSE x \in S : \A y \in S : y <= x

\* a player fed exactly the first k seqs of <<1,2,2,1,5,4>> has accepted
\* exactly those that exceed all before them, and stores the largest
C1_Scenario ==
  \A p \in DOMAIN players :
    /\ players[p].lastInput.seq = SetMax(accepted[p])
    /\ scenario[p] >= 0 =>
         accepted[p] = PrefixMaxima(SubSeq(Scenario, 1, scenario[p]), 0)
    /\ scenario[p] = Len(Scenario) => accepted[p] = {1, 2, 5}

\* a player's stored intent and last-seen time change only together with a
\* strictly larger seq
C1_OnlyForward ==
  \A p \in DOMAIN players \cap DOMAIN players' :
    (players'[p].lastInput # players[p].lastInput
       \/ players'[p].lastSeen # players[p].lastSeen)
      => /\ players'[p].lastInput.seq > players[p].lastInput.seq
         /\ accepted'[p] # accepted[p]

\* C1: the input handler replaces a player's stored intent only for a seq
\* strictly greater than the last accepted one (initially 0) and otherwise
\* leaves intent and last-seen time unchanged; <<1,2,2,1,5,4>> fed to a fresh
\* player is accepted as exactly {1,2,5}.
C1_MonotonicSeq == [](C1_Scenario) /\ [][C1_OnlyForward]_vars

\* a player has been fed exactly <<1,2,2,1,5,4>>
C1_Witness ==
  \E p \in DOMAIN players :
    scenario[p] = Len(Scenario) /\ accepted[p] = {1, 2, 5} /\ players[p].lastSeen > 0

\* ------------------------------------------------------------ the game tick
\* bound of SpecTick: game ticks
TicksT == 3

\* two players spawn 6 units apart near the low corner
DrawsT == { [jitter |-> 0, x |-> SpawnLowX, y |-> SpawnLowY],
            [jitter |-> 0, x |-> SpawnLowX + 6 * Scale, y |-> SpawnLowY] }
\* coins: one within reach of both spawn points (nearer to the second), one
\* within reach of the second spawn point only
CoinsT == { << SpawnLowX + 10 * Scale, SpawnLowY >>,
            << SpawnLowX + 20 * Scale, SpawnLowY >> }
\* the one intent moves a player 6 units towards the coins per tick
RawsT(ws) == IF NoJoinYet(ws) THEN {Join}
             ELSE IF NoInputYet(ws, 1) THEN {Input(1, 5, 0)} ELSE {}
MaxTimeT == 2 * COIN_SPAWN_INTERVAL_MS

NextTick ==
  \/ Connect({1, 2}, {0})
  \/ OnMessage([ws \in DOMAIN readyState |-> RawsT(ws)], {0}, NoCap, 2 * 2)
  \/ ProcessIncomingQueue(DrawsT)
  \/ GameTick({0}, CoinsT, TicksT, TRUE)
  \/ AdvanceTime({COIN_SPAWN_INTERVAL_MS}, MaxTimeT, FALSE, TRUE, FALSE)

SpecTick == Init /\ [][NextTick]_vars

\* ------------------------------------------------------------ movement
\* bounds of SpecMove: game ticks, and messages received
TicksM == 3
MsgsM == 2

\* spawn at either end of the spawn range
DrawsM == { [jitter |-> 0, x |-> SpawnLowX, y |-> SpawnLowY],
            [jitter |-> 0, x |-> SpawnHighX, y |-> SpawnHighY] }
CoinsM == { << (MAP_W \div 2) * Scale, (MAP_H \div 2) * Scale >> }
\* intents: along an axis, along both diagonals, and out of range (clamped)
IntentsM == { << 0 - 1, 0 >>, << 0, 1 >>, << 0 - 1, 0 - 1 >>, << 5, 5 >> }
RawsM(ws) == IF NoJoinYet(ws) THEN {Join}
             ELSE { Input(1, d[1], d[2]) : d \in IntentsM }

NextMove ==
  \/ Connect({1}, {0})
  \/ OnMessage([ws \in DOMAIN readyState |-> RawsM(ws)], {0}, MsgsM, MsgsM)
  \/ ProcessIncomingQueue(DrawsM)
  \/ FlushOutgoing
  \/ GameTick({0}, CoinsM, TicksM, TRUE)
  \/ AdvanceTime({COIN_SPAWN_INTERVAL_MS}, MaxTimeT, FALSE, TRUE, TRUE)

SpecMove == Init /\ [][NextMove]_vars

\* ------------------------------------------------------------ coins
\* a step of gameTick
TickStep == serverTick' = serverTick + 1

RECURSIVE SumOver(_, _)
SumOver(f, S) ==
  IF S = {} THEN 0
  ELSE LET k == CHOOSE k \in S : TRUE IN f[k] + SumOver(f, S \ {k})

SetMin(S) == CHOOSE m \in S : \A k \in S : m <= k

\* over a step: what each player gained, the coins that went, and the players
\* whose position after movement is within pickup radius of coin c
ScoreGain == [p \in DOMAIN players |-> players'[p].score - players[p].score]
Removed == DOMAIN coins \ DOMAIN coins'
InReach(c) == { p \in DOMAIN players : InPickupRange(players'[p], coins[c]) }

\* C5: in every gameTick a removed coin had a player within pickup radius, and
\* is credited once, to the first such player of the scan; every player gains
\* exactly the coins credited to it, so the score increments of a tick add up
\* to the number of coins removed, which is at most the coins present at the
\* start of the tick.
C5_OneAward ==
  TickStep =>
    /\ DOMAIN players' = DOMAIN players
    /\ \A c \in Removed : InReach(c) # {}
    /\ \A p \in DOMAIN players :
         ScoreGain[p] = Cardinality({ c \in Removed : SetMin(InReach(c)) = p })
    /\ SumOver(ScoreGain, DOMAIN players) = Cardinality(Removed)
    /\ Cardinality(Removed) <= Cardinality(DOMAIN coins)
C5_CoinExclusive == [][C5_OneAward]_vars

\* two players that never moved stand 6 units apart, the first has scored and
\* the second has not: the coin 10 units from the first, 4 from the second,
\* went to the first
C5_Witness ==
  \E p, q \in DOMAIN players :
    /\ p < q
    /\ players[p].x = SpawnLowX /\ players[q].x = SpawnLowX + 6 * Scale
    /\ players[p].lastInput.seq = 0 /\ players[q].lastInput.seq = 0
    /\ players[p].score = 1 /\ players[q].score = 0

\* C6: after a gameTick every coin that was there when it began and is within
\* PICKUP_RADIUS of some player's position after movement is gone and a player
\* has gained a point; and when the coin is the only one in reach of a player
\* with score 0 and no other player reaches it, that player's score is 1.
C6_AllTaken ==
  TickStep =>
    \A c \in DOMAIN coins :
      InReach(c) # {} =>
        /\ c \notin DOMAIN coins'
        /\ \E p \in InReach(c) : ScoreGain[p] >= 1
        /\ \A p \in DOMAIN players :
             ( /\ InReach(c) = {p}
               /\ players[p].score = 0
               /\ \A d \in DOMAIN coins : p \in InReach(d) => d = c )
             => players'[p].score = 1
C6_InRangeRemoved == [][C6_AllTaken]_vars

\* a player that has moved towards the coins has scored, the other one has not
C6_Witness ==
  \E p, q \in DOMAIN players :
    /\ players[p].lastInput.seq = 1 /\ players[p].x > SpawnLowX + 6 * Scale
    /\ players[p].score >= 1 /\ players[q].score = 0
    /\ coins = EmptyMap /\ serverTick = TicksT

\* ------------------------------------------------------------ map bounds
InMap(p) ==
  /\ ENTITY_RADIUS * Scale <= p.x /\ p.x <= (MAP_W - ENTITY_RADIUS) * Scale
  /\ ENTITY_RADIUS * Scale <= p.y /\ p.y <= (MAP_H - ENTITY_RADIUS) * Scale

\* C7: in every reachable state, so after every gameTick, for every stored
\* intent and right after a join, every player's position is within
\* [radius, width - radius] x [radius, height - radius].
C7_PositionInBounds == \A p \in DOMAIN players : InMap(players[p])

\* a player pushing up-left along the diagonal is held at the low corner, or
\* one pushing down-right at the high corner
C7_Witness ==
  \E p \in DOMAIN players :
    \/ /\ players[p].lastInput.dx = 0 - 1 /\ players[p].lastInput.dy = 0 - 1
       /\ players[p].x = ENTITY_RADIUS * Scale
       /\ players[p].y = ENTITY_RADIUS * Scale
    \/ /\ players[p].lastInput.dx = 1 /\ players[p].lastInput.dy = 1
       /\ players[p].x = (MAP_W - ENTITY_RADIUS) * Scale
       /\ players[p].y = (MAP_H - ENTITY_RADIUS) * Scale

\* ------------------------------------------------------------ join
\* bounds of SpecJoin: join messages received, and waiting at a time
MsgsJ == 9

QueueJ == 4
DrawsJ == [jitter : {0}, x : {SpawnLowX}, y : {SpawnLowY}]
\* the first connection joins again and again, any other one joins once
RawsJ(ws) == IF ws = 1 \/ NoJoinYet(ws) THEN {Join} ELSE {}
MaxTimeJ == 3 * ONE_WAY_LATENCY

NextJoin ==
  \/ Connect({1, 2}, {0})
  \/ OnMessage([ws \in DOMAIN readyState |-> RawsJ(ws)], {0}, MsgsJ, QueueJ)
  \/ ProcessIncomingQueue(DrawsJ)
  \/ AdvanceTime({ONE_WAY_LATENCY}, MaxTimeJ, FALSE, TRUE, FALSE)

SpecJoin == Init /\ [][NextJoin]_vars

\* a step of processIncomingQueue that handles exactly one message, a join
OneJoinStep ==
  /\ lastDrain'.q = "in"
  /\ DueCount(incomingQueue, now) = 1
  /\ incomingQueue[1].raw.type = "join"

AtCapacity == Cardinality(DOMAIN players) >= MAX_PLAYERS

\* exactly one packet has been enqueued, for the requester
OneReply == /\ Len(outgoingQueue') = Len(outgoingQueue) + 1
            /\ SubSeq(outgoingQueue', 1, Len(outgoingQueue)) = outgoingQueue
            /\ outgoingQueue'[Len(outgoingQueue')].ws = incomingQueue[1].ws
Reply == outgoingQueue'[Len(outgoingQueue')].packet

C8_JoinStep ==
  OneJoinStep =>
    /\ OneReply
    /\ AtCapacity =>
         /\ Reply = [type |-> "join_reject", reason |-> "server_full"]
         /\ UNCHANGED << players, coins, sockets, serverTick, lastCoinSpawn,
                         nextId, clients, readyState >>
    /\ ~AtCapacity =>
         \E id \in DOMAIN players' \ DOMAIN players :
           /\ DOMAIN players' = DOMAIN players \cup {id}
           /\ \A p \in DOMAIN players : players'[p] = players[p]
           /\ players'[id].score = 0
           /\ players'[id].lastInput.seq = 0
           /\ Reply.type = "join_ack"
           /\ Reply.id = id
           /\ \E i \in 1..Len(Reply.players) : Reply.players[i].id = id

\* C8: a join handled with MAX_PLAYERS players present changes no player, coin
\* or socket-map state and enqueues exactly one join_reject (server_full) for
\* the requester, so there are never more than MAX_PLAYERS players; a join
\* handled below capacity adds exactly one player, with score 0 and last
\* accepted seq 0, and enqueues exactly one join_ack for the requester whose
\* players list contains the new id.
C8_JoinCapacity ==
  /\ [](Cardinality(DOMAIN players) <= MAX_PLAYERS)
  /\ [][C8_JoinStep]_vars

\* the registry is full and a join has been rejected
C8_Witness ==
  /\ Cardinality(DOMAIN players) = MAX_PLAYERS
  /\ lastDrain.q = "in" /\ Len(lastDrain.entries) = 1
  /\ outgoingQueue # << >>
  /\ outgoingQueue[Len(outgoingQueue)].packet.type = "join_reject"

\* ------------------------------------------------------------ close
\* a client joins once, then sends its first input
RawsC(ws) == IF NoJoinYet(ws) THEN {Join}
             ELSE IF NoInputYet(ws, 1) THEN {Input(1, 1, 0)} ELSE {}
MaxTimeC == 2 * ONE_WAY_LATENCY

NextClose ==
  \/ Connect({1, 2}, {0})
  \/ OnMessage([ws \in DOMAIN readyState |-> RawsC(ws)], {0}, NoCap, 2 * 2)
  \/ OnClose
  \/ ProcessIncomingQueue(DrawsJ)
  \/ AdvanceTime({ONE_WAY_LATENCY}, MaxTimeC, FALSE, TRUE, FALSE)

SpecClose == Init /\ [][NextClose]_vars

\* C9: once the close event of a connection has been handled, the connection
\* is not in the socket-to-player map and no player created through it is in
\* the player registry.
C9_ClosedLeavesNothing ==
  \A ws \in DOMAIN readyState :
    readyState[ws] = "CLOSED" =>
      /\ ws \notin DOMAIN sockets
      /\ \A p \in DOMAIN players : joinedVia[p] # ws

\* ------------------------------------------------------------ housekeeping
\* bound of SpecIdle: steps of the clock
RoundsI == 5

\* the clock moves by half the inactivity threshold
StepsI == { INACTIVITY_MS \div 2 }
MaxTimeI == RoundsI * (INACTIVITY_MS \div 2)
\* a client joins once, sends one input, and sends nothing after StopTimeI
StopTimeI == INACTIVITY_MS \div 2
RawsI(ws) == IF now > StopTimeI THEN {}
             ELSE IF NoJoinYet(ws) THEN {Join}
             ELSE IF NoInputYet(ws, 1) THEN {Input(1, 1, 0)} ELSE {}

NextIdle ==
  \/ Connect({1, 2}, {0})
  \/ OnMessage([ws \in DOMAIN readyState |-> RawsI(ws)], {0}, NoCap, 2 * 2)
  \/ ProcessIncomingQueue(DrawsJ)
  \/ Housekeeping
  \/ AdvanceTime(StepsI, MaxTimeI, FALSE, TRUE, FALSE)

\* the intervals of processIncomingQueue and housekeeping keep firing, and the
\* clock keeps moving
SpecIdle ==
  /\ Init /\ [][NextIdle]_vars
  /\ WF_vars(ProcessIncomingQueue(DrawsJ))
  /\ WF_vars(Housekeeping)
  /\ WF_vars(AdvanceTime(StepsI, MaxTimeI, FALSE, TRUE, FALSE))

\* a run of the housekeeping sweep
SweepStep == lastDrain'.q = "sweep"
IdleNow == { p \in DOMAIN players : now - players[p].lastSeen > INACTIVITY_MS }

C10_Sweep ==
  SweepStep =>
    /\ DOMAIN players' = DOMAIN players \ IdleNow
    /\ \A p \in DOMAIN players' : players'[p] = players[p]
    /\ \A ws \in DOMAIN sockets :
         IF sockets[ws] \in IdleNow
         THEN ws \notin DOMAIN sockets' /\ readyState'[ws] # "OPEN"
         ELSE /\ ws \in DOMAIN sockets' /\ sockets'[ws] = sockets[ws]
              /\ readyState'[ws] = readyState[ws]

\* the players there can be: a client joins once
PlayerIdsI == 1..2

\* C10: a run of the housekeeping sweep removes exactly the players last seen
\* more than 60 s before now, closes every connection mapped to one of them
\* and removes it from the socket map, and leaves every other player and
\* connection alone, so a player whose inputs keep being accepted less than
\* 60 s apart is never swept; and a player whose client has stopped sending is
\* eventually removed.
C10_IdleSwept ==
  /\ [][C10_Sweep]_vars
  /\ \A p \in PlayerIdsI : (p \in DOMAIN players) ~> (p \notin DOMAIN players)

\* a sweep has just removed one player and closed its connection, and has
\* left a player last seen exactly 60 s ago
C10_Witness ==
  /\ lastDrain.q = "sweep"
  /\ nextId = 2
  /\ \E p \in DOMAIN players :
       DOMAIN players = {p} /\ now - players[p].lastSeen = INACTIVITY_MS
  /\ \E ws \in DOMAIN readyState :
       readyState[ws] = "CLOSING" /\ ws \notin DOMAIN sockets

\* ------------------------------------------------------------ snapshots
\* bounds of SpecSnap: game ticks, and ids handed out
TicksN == 2
IdsN == 2

\* a coin within reach of the spawn point, so that the world changes while a
\* snapshot waits
CoinsN == { << SpawnLowX + 10 * Scale, SpawnLowY >> }
\* the first connection joins, once; the second one only watches
RawsN(ws) == IF ws = 1 /\ NoJoinYet(ws) THEN {Join} ELSE {}
MaxTimeN == 2 * ONE_WAY_LATENCY

NextSnap ==
  \/ Connect({1, 2}, {0})
  \/ OnMessage([ws \in DOMAIN readyState |-> RawsN(ws)], {0}, NoCap, 2)
  \/ ProcessIncomingQueue(DrawsJ)
  \/ DebugSpawn(CoinsN, IdsN)
  \/ GameTick({0}, CoinsN, TicksN, TRUE)
  \/ FlushOutgoing
  \/ AdvanceTime({ONE_WAY_LATENCY}, MaxTimeN, FALSE, TRUE, TRUE)

SpecSnap == Init /\ [][NextSnap]_vars

\* the open connections, in the order of wss.clients
OpenClients == SelectSeq(clients, LAMBDA ws : readyState[ws] = "OPEN")
\* what a step has appended to the outbound queue
Enqueued == SubSeq(outgoingQueue', Len(outgoingQueue) + 1, Len(outgoingQueue'))

\* the packet shows the world of the primed state
ShowsWorld(pk) ==
  /\ pk.type = "snapshot"
  /\ pk.serverTick = serverTick' /\ pk.serverTime = now'
  /\ Len(pk.players) = Cardinality(DOMAIN players')
  /\ \A p \in DOMAIN players' : \E i \in 1..Len(pk.players) :
       pk.players[i] = [id |-> p, x |-> players'[p].x, y |-> players'[p].y,
                        score |-> players'[p].score,
                        lastInputSeq |-> players'[p].lastInput.seq]
  /\ Len(pk.coins) = Cardinality(DOMAIN coins')
  /\ \A c \in DOMAIN coins' : \E i \in 1..Len(pk.coins) :
       pk.coins[i] = [id |-> c, x |-> coins'[c].x, y |-> coins'[c].y]

C11_Broadcast ==
  /\ TickStep =>
       /\ SubSeq(outgoingQueue', 1, Len(outgoingQueue)) = outgoingQueue
       /\ Len(Enqueued) = Len(OpenClients)
       /\ \A i \in 1..Len(Enqueued) :
            Enqueued[i].ws = OpenClients[i] /\ ShowsWorld(Enqueued[i].packet)
  \* a waiting entry is not rewritten, whatever the step does to the world
  /\ lastDrain'.q # "out" =>
       \A i \in 1..Len(outgoingQueue) : \E j \in 1..Len(outgoingQueue') :
         outgoingQueue'[j] = outgoingQueue[i]
  \* the flush sends the packet of the entry
  /\ lastDrain'.q = "out" =>
       \A i \in 1..Len(lastDrain'.entries) :
         /\ lastDrain'.entries[i].packet = outgoingQueue[i].packet
         /\ lastDrain'.entries[i].sent = (readyState[outgoingQueue[i].ws] = "OPEN")

\* C11: a broadcast appends to the outbound queue exactly one entry per open
\* connection, each holding the same snapshot, whose serverTick, serverTime,
\* players and coins are those of the world when it was built; an entry keeps
\* its packet while it waits, and the flush sends that packet.
C11_SnapshotCopies == [][C11_Broadcast]_vars

\* the flush has just sent two connections the same snapshot, and the coin it
\* shows has been picked up since
C11_Witness ==
  /\ lastDrain.q = "out"
  /\ \E i, j \in 1..Len(lastDrain.entries) :
       /\ i # j
       /\ lastDrain.entries[i].sent /\ lastDrain.entries[j].sent
       /\ lastDrain.entries[i].type = "snapshot"
       /\ lastDrain.entries[i].packet = lastDrain.entries[j].packet
       /\ lastDrain.entries[i].ws # lastDrain.entries[j].ws
       /\ lastDrain.entries[i].packet.coins # << >>
       /\ coins = EmptyMap

\* ------------------------------------------------------------ pending inputs
\* bounds of SpecPending: inputs sent, and game ticks
SeqsP == 3
TicksP == 2

MaxTimeP == 4 * ONE_WAY_LATENCY

NextPending ==
  \/ Connect({ClientWs}, {0})
  \/ OnMessage([ws \in DOMAIN readyState |-> RawsN(ws)], {0}, NoCap, 2)
  \/ ProcessIncomingQueue(DrawsJ)
  \/ SendInput({0}, SeqsP)
  \/ GameTick({0}, CoinsM, TicksP, TRUE)
  \/ FlushToClient
  \/ AdvanceTime({ONE_WAY_LATENCY}, MaxTimeP, FALSE, TRUE, TRUE)

SpecPending == Init /\ [][NextPending]_vars

\* the snapshots a flush step hands to the browser that show its own player
OwnAcks ==
  LET got == SentTo(ClientWs, lastDrain'.entries)
  IN  { got[i].players[FindPlayer(got[i].players, myId)].lastInputSeq :
          i \in { k \in 1..Len(got) :
                    got[k].type = "snapshot"
                    /\ FindPlayer(got[k].players, myId) # 0 } }

C12_Prune ==
  ( /\ lastDrain'.q = "out"
    /\ joined /\ myId # NoPlayer
    /\ OwnAcks # {} )
  => /\ \A i \in 1..Len(pendingInputs') : pendingInputs'[i].seq > SetMax(OwnAcks)
     /\ pendingInputs' =
          SelectSeq(pendingInputs, LAMBDA pi : pi.seq > SetMax(OwnAcks))

\* C12: when the browser has handled snapshots that show its own player, the
\* largest acknowledged seq among them being a, the pending-input list holds
\* no input with seq <= a and holds every input with seq > a that it held
\* before, in the same order.
C12_PendingPruned == [][C12_Prune]_vars

\* a snapshot acknowledging an input has been handled while later inputs wait
C12_Witness ==
  /\ lastDrain.q = "out"
  /\ pendingInputs # << >>
  /\ \E i \in 1..Len(lastDrain.entries) :
       LET e == lastDrain.entries[i]
       IN  /\ e.sent /\ e.ws = ClientWs /\ e.type = "snapshot"
           /\ FindPlayer(e.packet.players, myId) # 0
           /\ e.packet.players[FindPlayer(e.packet.players, myId)].lastInputSeq >= 1
           /\ Head(pendingInputs).seq >
                e.packet.players[FindPlayer(e.packet.players, myId)].lastInputSeq

\* ------------------------------------------------------------ prediction
\* One browser tab and the server, every timer on time and in one order: the
\* tab connects and joins at once, a key is pressed before that or never, and
\* at every instant the inbound drain, the tick, the flush, the input sender
\* and a frame run in this order before the clock moves on by one tick.
TicksR == 24

MaxTimeR == TicksR * MS_PER_TICK
IntentsR == { << 1, 0 >>, << 0 - 1, 0 >> }
\* the join_ack is handled one round trip after the join
InputsDue == IF joined THEN (now - 2 * ONE_WAY_LATENCY) \div CLIENT_SEND_RATE ELSE 0

Drained == ~HeadDue(incomingQueue, now)
Ticked == Drained /\ serverTick = now \div MS_PER_TICK
Flushed == Ticked /\ ~HeadDue(outgoingQueue, now)
InputSent == Flushed /\ inputSeq = InputsDue

OnTime ==
  /\ ClientWs \in DOMAIN readyState /\ ~NoJoinYet(ClientWs)
  /\ InputSent
  /\ lastFrameTs = now

NextPredict ==
  \/ Connect({ClientWs}, {0})
  \/ (now = 0 /\ currentInput = [dx |-> 0, dy |-> 0] /\ KeyEvent(IntentsR))
  \/ OnMessage([ws \in DOMAIN readyState |-> RawsN(ws)], {0}, NoCap, 2)
  \/ (~Drained /\ ProcessIncomingQueue(DrawsJ))
  \/ (Drained /\ GameTick({0}, CoinsM, TicksR, TRUE))
  \/ (Ticked /\ ~Flushed /\ FlushToClient)
  \/ (Flushed /\ SendInput({0}, InputsDue))
  \/ (InputSent /\ lastFrameTs < now /\ Render)
  \/ (OnTime /\ AdvanceTime({MS_PER_TICK}, MaxTimeR, FALSE, TRUE, TRUE))

SpecPredict == Init /\ [][NextPredict]_vars

\* C13: once TicksR ticks have run with the intent unchanged since before the
\* join and every message delivered, the position the browser predicts and
\* the authoritative one differ by at most one tick's displacement on each
\* axis.
C13_Converges ==
  ( /\ OnTime /\ serverTick = TicksR
    /\ joined /\ myId \in DOMAIN players )
  => /\ Abs(localState.x - players[myId].x) <= MoveDist
     /\ Abs(localState.y - players[myId].y) <= MoveDist

\* ------------------------------------------------------------ interpolation
\* A browser whose clock may lag the server's is handed snapshots of one or
\* two remote players, in the order the server made them and not before they
\* can have arrived, and renders in between.
BufL == 3

SkewsL == {0, 0 - (ONE_WAY_LATENCY \div 2)}
StepL == MS_PER_TICK \div 5
MaxTimeL == 2 * ONE_WAY_LATENCY + MS_PER_TICK
TimesL == {MS_PER_TICK, 2 * MS_PER_TICK, 3 * MS_PER_TICK}
Remote(id, x, y, score) ==
  [id |-> id, x |-> x * Scale, y |-> y * Scale, score |-> score, lastInputSeq |-> 0]
\* player 1 alone at one place, or at another with player 2 about
PlayersL == { << Remote(1, 100, 100, 0) >>,
              << Remote(1, 200, 300, 1), Remote(2, 400, 200, 1) >> }
SnapshotsL ==
  { [type |-> "snapshot", serverTick |-> t \div MS_PER_TICK, serverTime |-> t,
     players |-> ps, coins |-> << >>] : t \in TimesL, ps \in PlayersL }
\* those made after the last one buffered that can have arrived by now
ArrivableL ==
  { m \in SnapshotsL :
      /\ m.serverTime + ONE_WAY_LATENCY - LATENCY_JITTER <= now
      /\ snapshotBuffer # << >> =>
           m.serverTime > snapshotBuffer[Len(snapshotBuffer)].serverTime }

InitLerp == InitServer /\ InitClient /\ clockSkew \in SkewsL

NextLerp ==
  \/ ClientMessage(ArrivableL, BufL)
  \/ Render
  \/ (now = 0 /\ AdvanceTime({ONE_WAY_LATENCY}, MaxTimeL, FALSE, FALSE, FALSE))
  \/ (now > 0 /\ AdvanceTime({StepL}, MaxTimeL, FALSE, FALSE, FALSE))

SpecLerp == InitLerp /\ [][NextLerp]_vars

\* getRemoteEntityPositions has just returned a map for a non-empty buffer
Rendered == lastDrain.q = "render" /\ snapshotBuffer # << >> /\ positions.kind = "map"

Oldest == snapshotBuffer[1]
Newest == snapshotBuffer[Len(snapshotBuffer)]

\* C14: for a render time before the first buffered snapshot the result is
\* the positions of the oldest snapshot, for one after the last buffered
\* snapshot those of the newest.
C14_NearestSnapshot ==
  Rendered =>
    /\ renderTime < Oldest.serverTime => positions = KnownPositions(Oldest)
    /\ renderTime > Newest.serverTime => positions = KnownPositions(Newest)

\* the pair of snapshots the result was blended from
PairA == snapshotBuffer[FirstBracket(snapshotBuffer, renderTime)]
PairB == snapshotBuffer[FirstBracket(snapshotBuffer, renderTime) + 1]

\* C15: when two buffered snapshots bracket the render time, an entity that
\* is in only one of the two is reported at the position it has in that one.
C15_HeldAtKnown ==
  (Rendered /\ FirstBracket(snapshotBuffer, renderTime) # 0) =>
    /\ \A id \in IdsOf(PairA.players) \ IdsOf(PairB.players) :
         /\ positions.at[id].x = EntryOf(PairA.players, id).x
         /\ positions.at[id].y = EntryOf(PairA.players, id).y
    /\ \A id \in IdsOf(PairB.players) \ IdsOf(PairA.players) :
         /\ positions.at[id].x = EntryOf(PairB.players, id).x
         /\ positions.at[id].y = EntryOf(PairB.players, id).y

\* p0 at t0, p1 at t1, p0 + (p1 - p0) * (rt - t0) / (t1 - t0) in between
BlendAt(p0, p1, t0, t1, rt) ==
  IF rt = t0 THEN p0
  ELSE IF rt = t1 THEN p1
  ELSE p0 + ((p1 - p0) * (rt - t0)) \div (t1 - t0)

\* C16: for any two adjacent buffered snapshots at t0 < t1 and an entity that
\* is in both, a render time in [t0, t1] gives the entity p0 at t0, p1 at t1
\* and the linear blend in between, however many snapshots are buffered.
C16_LinearBlend ==
  Rendered =>
    \A i \in 1..(Len(snapshotBuffer) - 1) :
      LET a == snapshotBuffer[i]
          b == snapshotBuffer[i + 1]
      IN  ( /\ a.serverTime < b.serverTime
            /\ a.serverTime <= renderTime /\ renderTime <= b.serverTime )
          => \A id \in IdsOf(a.players) \cap IdsOf(b.players) :
               /\ positions.at[id].x =
                    BlendAt(EntryOf(a.players, id).x, EntryOf(b.players, id).x,
                            a.serverTime, b.serverTime, renderTime)
               /\ positions.at[id].y =
                    BlendAt(EntryOf(a.players, id).y, EntryOf(b.players, id).y,
                            a.serverTime, b.serverTime, renderTime)

\* three snapshots are buffered and the render time is strictly inside the
\* later pair, between which player 1 has moved
C16_Witness ==
  /\ Rendered
  /\ Len(snapshotBuffer) = BufL
  /\ snapshotBuffer[2].serverTime < renderTime
  /\ renderTime < snapshotBuffer[3].serverTime
  /\ EntryOf(snapshotBuffer[2].players, 1).x # EntryOf(snapshotBuffer[3].players, 1).x
  /\ positions.at[1].x # EntryOf(snapshotBuffer[2].players, 1).x
  /\ positions.at[1].x # EntryOf(snapshotBuffer[3].players, 1).x

\* ------------------------------------------------------------ coin spawning
\* The debug console's 'spawn' and the tick fill an empty world with coins, in
\* any order, the clock at the start, at the first spawn time or a tick or two
\* later.
TicksK == 3
IdsK == 11

CoinsK == { << SpawnLowX + 10 * Scale, SpawnLowY >> }
MaxTimeK == COIN_SPAWN_INTERVAL_MS + 2 * MS_PER_TICK

NextCoins ==
  \/ DebugSpawn(CoinsK, IdsK)
  \/ GameTick({0}, CoinsK, TicksK, TRUE)
  \/ (now = 0 /\ AdvanceTime({COIN_SPAWN_INTERVAL_MS}, MaxTimeK, FALSE, FALSE, FALSE))
  \/ (now > 0 /\ AdvanceTime({MS_PER_TICK}, MaxTimeK, FALSE, FALSE, FALSE))

SpecCoins == Init /\ [][NextCoins]_vars

\* The same with a player: 'spawn' is used before anyone connects, all coins
\* are next to where the player spawns, the player's join is handled at the
\* first spawn time, and the ticks shown are those from that time on, one
\* every MS_PER_TICK.
TicksU == 3
IdsU == 11

TicksDueU == Min(TicksU, (now - COIN_SPAWN_INTERVAL_MS) \div MS_PER_TICK + 1)

NextDue ==
  \/ (readyState = EmptyMap /\ DebugSpawn(CoinsK, IdsU))
  \/ Connect({1}, {0})
  \/ OnMessage([ws \in DOMAIN readyState |-> RawsN(ws)], {0}, NoCap, 2)
  \/ ProcessIncomingQueue(DrawsJ)
  \/ GameTick({0}, CoinsK, TicksDueU, FALSE)
  \/ FlushOutgoing
  \/ (now = 0 /\ AdvanceTime({COIN_SPAWN_INTERVAL_MS}, MaxTimeK, FALSE, FALSE, TRUE))
  \/ (now > 0 /\ AdvanceTime({MS_PER_TICK}, MaxTimeK, FALSE, TRUE, TRUE))

SpecDue == Init /\ [][NextDue]_vars

NumCoins == Cardinality(DOMAIN coins)
Created == DOMAIN coins' \ DOMAIN coins

C17_Tick ==
  ( /\ TickStep
    /\ NumCoins < MAX_COINS
    /\ now - lastSpawned >= COIN_SPAWN_INTERVAL_MS )
  => Cardinality(Created) = 1

\* C17: a tick that starts with fewer than MAX_COINS coins, at least
\* COIN_SPAWN_INTERVAL_MS after a coin was last created (after the start, when
\* none has been), creates exactly one coin.
C17_SpawnsWhenDue == [][C17_Tick]_vars

C18_Step ==
  /\ NumCoins <= MAX_COINS
  /\ Cardinality(DOMAIN coins') <= MAX_COINS
  /\ (lastDrain'.q = "spawn" /\ NumCoins >= MAX_COINS) => coins' = coins
  /\ TickStep => Cardinality(Created) <= 1

\* C18: there are never more than MAX_COINS coins, whatever the order of
\* ticks and 'spawn' commands; a 'spawn' at capacity leaves the coins as
\* they are, and a tick creates at most one coin.
C18_CoinCap == [][C18_Step]_vars

\* a 'spawn' has been tried with MAX_COINS coins in the world
C18_Witness ==
  /\ lastDrain.q = "spawn"
  /\ lastDrain.floor = MAX_COINS
  /\ NumCoins = MAX_COINS

\* ------------------------------------------------------------ walking
\* One player spawns at either end of the spawn range; its browser sends one
\* input, (1,0) or (0,0), or none, before the first tick; then the ticks run
\* (the clock is of no account to them: dt is MS_PER_TICK / 1000 whatever it
\* shows).
TicksW == 40

IntentsW == { << 1, 0 >>, << 0, 0 >> }
RawsW(ws) == IF NoJoinYet(ws) THEN {Join}
             ELSE IF NoInputYet(ws, 1) /\ serverTick = 0
                  THEN { Input(1, d[1], d[2]) : d \in IntentsW }
                  ELSE {}
MaxTimeW == 3 * ONE_WAY_LATENCY
\* a player is there and no message of its browser is under way
Settled == players # EmptyMap /\ incomingQueue = << >>

NextWalk ==
  \/ Connect({1}, {0})
  \/ OnMessage([ws \in DOMAIN readyState |-> RawsW(ws)], {0}, NoCap, 2)
  \/ ProcessIncomingQueue(DrawsM)
  \/ FlushOutgoing
  \/ (Settled /\ GameTick({0}, CoinsM, TicksW, FALSE))
  \/ (serverTick = 0 /\ AdvanceTime({ONE_WAY_LATENCY}, MaxTimeW, FALSE, TRUE, TRUE))

SpecWalk == Init /\ [][NextWalk]_vars

SpawnsW == { << d.x, d.y >> : d \in DrawsM }

\* C19: after k ticks with the stored intent (1,0) a player is k * PLAYER_SPEED
\* * dt to the right of where it spawned, or at MAP_W - 8 if that is nearer,
\* and its y is the one it spawned at; with a zero intent, or none ever
\* stored, it is where it spawned.
C19_Walk ==
  \A p \in DOMAIN players :
    \E s \in SpawnsW :
      /\ players[p].y = s[2]
      /\ players[p].x =
           IF players[p].lastInput.dx = 1 /\ players[p].lastInput.dy = 0
           THEN Min(s[1] + serverTick * ((PLAYER_SPEED * Scale) \div TICK_RATE),
                    (MAP_W - ENTITY_RADIUS) * Scale)
           ELSE s[1]

\* 2 seconds of ticks with intent (1,0) have taken a player 2 * PLAYER_SPEED
\* = 240 units to the right
C19_Witness ==
  /\ serverTick = 2 * TICK_RATE
  /\ \E p \in DOMAIN players :
       /\ players[p].lastInput.dx = 1 /\ players[p].lastInput.dy = 0
       /\ players[p].x = SpawnLowX + 2 * PLAYER_SPEED * Scale
       /\ players[p].y = SpawnLowY

\* ------------------------------------------------------------ dead destinations
\* Two connections get welcomes and pongs; either may close while packets
\* for it wait in the outbound queue; the flush may run late, so that several
\* packets are due at once.
MsgsX == 2

MaxTimeX == 3 * ONE_WAY_LATENCY

NextDead ==
  \/ Connect({1, 2}, {0})
  \/ OnMessage([ws \in DOMAIN readyState |-> RawsQ(ws)], {0}, MsgsX, MsgsX)
  \/ OnClose
  \/ ProcessIncomingQueue(DrawsJ)
  \/ FlushOutgoing
  \/ AdvanceTime({ONE_WAY_LATENCY}, MaxTimeX, FALSE, TRUE, FALSE)

SpecDead == Init /\ [][NextDead]_vars

\* the entries the flush loop reaches: those with nothing but due entries
\* before them, themselves due
Reached == { i \in 1..Len(outgoingQueue) :
               \A k \in 1..i : outgoingQueue[k].deliverAt <= now }
Dead(i) == readyState[outgoingQueue[i].ws] # "OPEN"

C20_Flush ==
  (lastDrain'.q = "out" /\ \E i \in Reached : Dead(i))
  => /\ Len(lastDrain'.entries) = Cardinality(Reached)
     /\ outgoingQueue' =
          SubSeq(outgoingQueue, Cardinality(Reached) + 1, Len(outgoingQueue))
     /\ \A i \in Reached :
          /\ lastDrain'.entries[i].ws = outgoingQueue[i].ws
          /\ lastDrain'.entries[i].packet = outgoingQueue[i].packet
          /\ lastDrain'.entries[i].sent = ~Dead(i)
     /\ UNCHANGED << players, coins, sockets, clients, readyState,
                     incomingQueue, serverTick, lastCoinSpawn, nextId >>

MsgsB == 3

Garbage == [type |-> "#garbage"]
Null == [type |-> "#null"]
Chat == [type |-> "chat"]
RawsB(ws) == {Garbage, Null, Chat, Ping, Input(1, 1, 0)}
             \cup (IF NoJoinYet(ws) THEN {Join} ELSE {})
MaxTimeB == 2 * ONE_WAY_LATENCY

NextBad ==
  \/ Connect({1}, {0})
  \/ OnMessage([ws \in DOMAIN readyState |-> RawsB(ws)], {0}, MsgsB, MsgsB)
  \/ ProcessIncomingQueue(DrawsJ)
  \/ FlushOutgoing
  \/ AdvanceTime({ONE_WAY_LATENCY}, MaxTimeB, FALSE, FALSE, TRUE)

SpecBad == Init /\ [][NextBad]_vars

\* the entries the drain loop reaches: due, with none but due ones before
ReachedIn == { i \in 1..Len(incomingQueue) :
                 \A k \in 1..i : incomingQueue[k].deliverAt <= now }

\* entry i of the inbound queue is one the handler has to ignore: it does
\* not parse, has no string type, is of an unknown type, or is an input of a
\* connection that has no player and has not joined earlier in the queue
Ignored(i) ==
  \/ incomingQueue[i].raw.type \in {"#garbage", "#null", "chat"}
  \/ /\ incomingQueue[i].raw.type = "input"
     /\ sockets[incomingQueue[i].ws] = NoPlayer
     /\ \A k \in 1..(i - 1) :
          ~(incomingQueue[k].raw.type = "join"
            /\ incomingQueue[k].ws = incomingQueue[i].ws)

\* the entries that are answered: pings and joins
Answered == { i \in ReachedIn : incomingQueue[i].raw.type \in {"ping", "join"} }

C21_Drain ==
  (lastDrain'.q = "in" /\ \E i \in ReachedIn : Ignored(i))
  => /\ Len(lastDrain'.entries) = Cardinality(ReachedIn)
     /\ incomingQueue' =
          SubSeq(incomingQueue, Cardinality(ReachedIn) + 1, Len(incomingQueue))
     /\ Len(outgoingQueue') = Len(outgoingQueue) + Cardinality(Answered)
     /\ readyState' = readyState
     /\ coins' = coins
     /\ (\A i \in ReachedIn : Ignored(i))
          => /\ players' = players
             /\ sockets' = sockets
             /\ outgoingQueue' = outgoingQueue

\* C21: a drain that meets payloads that do not parse, have no string type
\* or an unknown type, or inputs of a connection without a player, handles
\* every due message all the same and answers the pings and joins among
\* them and nothing else; it leaves connections open and coins alone, and if
\* it meets nothing but such payloads it changes no player, no socket-map
\* entry and enqueues nothing.
C21_BadIgnored == [][C21_Drain]_vars

\* a drain has met unparsable bytes and then a ping, which it answered
C21_Witness ==
  /\ lastDrain.q = "in"
  /\ \E i, j \in 1..Len(lastDrain.entries) :
       /\ i < j
       /\ lastDrain.entries[i].type = "#garbage"
       /\ lastDrain.entries[j].type = "ping"
  /\ outgoingQueue # << >>
  /\ outgoingQueue[Len(outgoingQueue)].packet.type = "pong"
  /\ outgoingQueue[Len(outgoingQueue)].enq = now
  /\ readyState[1] = "OPEN"

\* ------------------------------------------------------------ local bounds
\* C22: the position the browser predicts for its own player is within
\* [0, canvas.width] x [0, canvas.height] after every operation of the
\* browser, a reconciliation included.
C22_LocalInBounds ==
  /\ 0 <= localState.x /\ localState.x <= CANVAS_W * Scale
  /\ 0 <= localState.y /\ localState.y <= CANVAS_H * Scale

\* ------------------------------------------------------------ registry
\* C23: every player in the world is the player of exactly one connection of
\* the socket map, and no connection has created two players that are both
\* still in the world.
C23_OneToOne ==
  /\ \A p \in DOMAIN players :
       Cardinality({ ws \in DOMAIN sockets : sockets[ws] = p }) = 1
  /\ \A p, q \in DOMAIN players : joinedVia[p] = joinedVia[q] => p = q

\* ------------------------------------------------------------ snapshot buffer
\* One browser, its clock equal to the server's or far ahead of it, connects
\* at the start or just before the second tick; the server ticks every
\* MS_PER_TICK and the jitter of each packet is at either end of its range;
\* sortQueues and the flush run whenever they like.
TicksF == 4

JitterF == {0 - LATENCY_JITTER, LATENCY_JITTER - 1}
SkewsF == {0, SNAPSHOT_BUFFER_MS - 6 * MS_PER_TICK}
ConnectAtF == {0, 2 * MS_PER_TICK - LATENCY_JITTER}
MaxTimeF == TicksF * MS_PER_TICK + ONE_WAY_LATENCY + LATENCY_JITTER
\* the tick that is due at this instant, if any, has run
TickedF == now % MS_PER_TICK = 0 => serverTick >= Min(TicksF, now \div MS_PER_TICK)

InitBuffer == InitServer /\ InitClient /\ clockSkew \in SkewsF

NextBuffer ==
  \/ (now \in ConnectAtF /\ Connect({ClientWs}, JitterF))
  \/ (now = (serverTick + 1) * MS_PER_TICK /\ GameTick(JitterF, CoinsM, TicksF, TRUE))
  \/ SortQueues(FALSE)
  \/ FlushToClient
  \/ (TickedF /\ AdvanceTime({LATENCY_JITTER}, MaxTimeF, FALSE, FALSE, FALSE))

SpecBuffer == InitBuffer /\ [][NextBuffer]_vars

\* the flush that led here handed the browser a snapshot
SnapshotReceived ==
  /\ lastDrain.q = "out"
  /\ \E i \in 1..Len(lastDrain.entries) :
       /\ lastDrain.entries[i].sent
       /\ lastDrain.entries[i].ws = ClientWs
       /\ lastDrain.entries[i].type = "snapshot"

\* C24: the snapshot buffer is in ascending order of serverTime, and after a
\* snapshot has been received it holds no snapshot with a serverTime before
\* the browser's Date.now() - SNAPSHOT_BUFFER_MS.
C24_BufferOrdered ==
  /\ \A i, j \in 1..Len(snapshotBuffer) :
       i < j => snapshotBuffer[i].serverTime <= snapshotBuffer[j].serverTime
  /\ SnapshotReceived =>
       \A i \in 1..Len(snapshotBuffer) :
         snapshotBuffer[i].serverTime >= ClientNow - SNAPSHOT_BUFFER_MS

\* a snapshot has been received after an older one was evicted, and two
\* are buffered
C24_Witness ==
  /\ SnapshotReceived
  /\ Len(snapshotBuffer) >= 2
  /\ snapshotBuffer[1].serverTick > 1


\* ---------------------------------------------------------------------------
\* acknowledged sequence numbers (server.js broadcastSnapshot and input
\* handler, client.js input sender and reconciliation)
\* ---------------------------------------------------------------------------

\* the own-player acknowledgements held in the snapshots the browser has
\* taken in (nothing is evicted within the time these runs cover)
AckedSoFar(buf, id) ==
  { buf[i].players[FindPlayer(buf[i].players, id)].lastInputSeq :
      i \in { k \in 1..Len(buf) : FindPlayer(buf[k].players, id) # 0 } }

\* the acknowledgements of a state: the server's record, the browser's counter
\* and the browser's pending list
SeqsInStep(ps, acc, isJoined, id, seq, pend, buf) ==
  /\ \A p \in DOMAIN ps : ps[p].lastInput.seq = SetMax(acc[p] \cup {0})
  /\ (isJoined /\ id \in DOMAIN ps) => ps[id].lastInput.seq <= seq
  /\ \A i \in 1..Len(pend) : pend[i].seq <= seq
  /\ \A i \in 1..Len(pend) : \A j \in 1..Len(pend) :
       i < j => pend[i].seq < pend[j].seq
  /\ isJoined =>
       \A i \in 1..Len(pend) : pend[i].seq > SetMax(AckedSoFar(buf, id))

C25_Step ==
  /\ SeqsInStep(players, accepted, joined, myId, inputSeq, pendingInputs,
                snapshotBuffer)
  /\ SeqsInStep(players', accepted', joined', myId', inputSeq', pendingInputs',
                snapshotBuffer')
  /\ \A p \in DOMAIN players \cap DOMAIN players' :
       players'[p].lastInput.seq >= players[p].lastInput.seq
  /\ \A i \in 1..Len(Enqueued) :
       Enqueued[i].packet.type = "snapshot" =>
         \A k \in 1..Len(Enqueued[i].packet.players) :
           LET e == Enqueued[i].packet.players[k]
           IN  /\ e.id \in DOMAIN players'
               /\ e.lastInputSeq = SetMax(accepted'[e.id] \cup {0})
               /\ e.id \in DOMAIN players =>
                    e.lastInputSeq >= players[e.id].lastInput.seq
               /\ (joined' /\ e.id = myId') => e.lastInputSeq <= inputSeq'

\* C25: the lastInputSeq a snapshot carries for a player is the highest seq
\* the server has accepted from that player and never goes down from one
\* snapshot to the next; for the browser sending 1, 2, 3, ... it is never
\* above the browser's inputSeq, and the browser's pending inputs are strictly
\* increasing in seq and all above the largest acknowledgement it has handled
C25_AckedSeqs == [][C25_Step]_vars

\* the browser has handled an acknowledgement of its first input while later
\* inputs, sent since, wait in order, and the server has accepted more
C25_Witness ==
  /\ joined /\ myId \in DOMAIN players
  /\ SetMax(AckedSoFar(snapshotBuffer, myId)) >= 1
  /\ Len(pendingInputs) >= 2
  /\ players[myId].lastInput.seq > SetMax(AckedSoFar(snapshotBuffer, myId))
  /\ inputSeq >= players[myId].lastInput.seq


\* ---------------------------------------------------------------------------
\* delivery (server.js delay queues and their timers)
\* ---------------------------------------------------------------------------
\* bound of SpecFair: messages a client sends
MsgsV == 2

\* the clock moves by half the latency; a client connects and sends up to
\* StopTimeV, and the clock runs on until every reply is due; the jitter is
\* drawn for the packets the server makes
StepV == ONE_WAY_LATENCY \div 2
StopTimeV == 0 * StepV
MaxTimeV == StopTimeV + 3 * ONE_WAY_LATENCY
JitterV == {0 - LATENCY_JITTER, LATENCY_JITTER - 1}
DrawsV == [jitter : JitterV, x : {SpawnLowX}, y : {SpawnLowY}]
RawsV(ws) == IF now > StopTimeV THEN {}
             ELSE {Garbage, Ping} \cup (IF NoJoinYet(ws) THEN {Join} ELSE {})

NextFair ==
  \/ now <= StopTimeV /\ Connect({1}, JitterV)
  \/ OnMessage([ws \in DOMAIN readyState |-> RawsV(ws)], {0}, MsgsV, MsgsV)
  \/ now > StopTimeV /\ incomingQueue = << >> /\ OnClose
  \/ ProcessIncomingQueue(DrawsV)
  \/ FlushOutgoing
  \/ AdvanceTime({StepV}, MaxTimeV, FALSE, TRUE, TRUE)

\* the intervals of the flush and of processIncomingQueue keep firing, and the
\* clock keeps moving
SpecFair ==
  /\ Init /\ [][NextFair]_vars
  /\ WF_vars(ProcessIncomingQueue(DrawsV))
  /\ WF_vars(FlushOutgoing)
  /\ WF_vars(AdvanceTime({StepV}, MaxTimeV, FALSE, TRUE, TRUE))

\* what tells one queue entry from another
InKey(it) == [deliverAt |-> it.deliverAt, ws |-> it.ws, type |-> it.raw.type]
OutKey(it) == [deliverAt |-> it.deliverAt, ws |-> it.ws, packet |-> it.packet]
GotInKey(e) == [deliverAt |-> e.deliverAt, ws |-> e.ws, type |-> e.type]
GotOutKey(e) == [deliverAt |-> e.deliverAt, ws |-> e.ws, packet |-> e.packet]
CountIn(q, k) == Cardinality({ i \in 1..Len(q) : InKey(q[i]) = k })
CountOut(q, k) == Cardinality({ i \in 1..Len(q) : OutKey(q[i]) = k })
CountGotIn(es, k) == Cardinality({ i \in 1..Len(es) : GotInKey(es[i]) = k })
CountGotOut(es, k) == Cardinality({ i \in 1..Len(es) : GotOutKey(es[i]) = k })
InKeys == { InKey(incomingQueue[i]) : i \in 1..Len(incomingQueue) }
OutKeys == { OutKey(outgoingQueue[i]) : i \in 1..Len(outgoingQueue) }

\* an entry leaves a queue in a drain of that queue only, and each copy of it
\* once: the drain takes as many out as it delivers
LeavesOnce ==
  /\ \A k \in InKeys :
       CountIn(incomingQueue', k) + (IF lastDrain'.q = "in"
                                     THEN CountGotIn(lastDrain'.entries, k)
                                     ELSE 0) >= CountIn(incomingQueue, k)
  /\ lastDrain'.q = "in" =>
       \A k \in InKeys :
         CountIn(incomingQueue', k) + CountGotIn(lastDrain'.entries, k)
           = CountIn(incomingQueue, k)
  /\ \A k \in OutKeys :
       CountOut(outgoingQueue', k) + (IF lastDrain'.q = "out"
                                      THEN CountGotOut(lastDrain'.entries, k)
                                      ELSE 0) >= CountOut(outgoingQueue, k)
  /\ lastDrain'.q = "out" =>
       /\ \A k \in OutKeys :
            CountOut(outgoingQueue', k) + CountGotOut(lastDrain'.entries, k)
              = CountOut(outgoingQueue, k)
       /\ \A i \in 1..Len(lastDrain'.entries) :
            readyState[lastDrain'.entries[i].ws] = "OPEN"
              => lastDrain'.entries[i].sent

\* every inbound entry a drain takes out reaches handleClientMessage
AllHanded ==
  lastDrain'.q = "in" =>
    \A i \in 1..Len(lastDrain'.entries) : lastDrain'.entries[i].handed

\* an inbound entry a drain takes out reaches handleClientMessage when it
\* parses, and only then
ParsedHanded ==
  lastDrain'.q = "in" =>
    \A i \in 1..Len(lastDrain'.entries) :
      lastDrain'.entries[i].handed = (lastDrain'.entries[i].type # Garbage.type)

\* the times an entry can be due at: a message is sent at StopTimeV at the
\* latest, and a reply is made by the drain that finds the message due
InAtsV == { StopTimeV + ONE_WAY_LATENCY }
DrainAtsV == { ((t + StepV - 1) \div StepV) * StepV : t \in InAtsV }
OutAtsV == { a + ONE_WAY_LATENCY + j : a \in {0} \cup DrainAtsV, j \in JitterV }
WaitsIn(t) == \E i \in 1..Len(incomingQueue) : incomingQueue[i].deliverAt = t
WaitsOut(t) == \E i \in 1..Len(outgoingQueue) : outgoingQueue[i].deliverAt = t
GotIn(t) ==
  /\ lastDrain.q = "in"
  /\ \E i \in 1..Len(lastDrain.entries) : lastDrain.entries[i].deliverAt = t
GotOut(t) ==
  /\ lastDrain.q = "out"
  /\ \E i \in 1..Len(lastDrain.entries) : lastDrain.entries[i].deliverAt = t
EveryEntryLeaves ==
  /\ \A t \in InAtsV : WaitsIn(t) ~> GotIn(t)
  /\ \A t \in OutAtsV : WaitsOut(t) ~> GotOut(t)
  /\ <>[](incomingQueue = << >> /\ outgoingQueue = << >>)

\* C26 as stated: with the flush and processIncomingQueue intervals firing and
\* the clock moving, every outbound entry for a connection that stays open is
\* eventually sent to it exactly once and every inbound entry is eventually
\* handed to handleClientMessage exactly once; no entry stays queued forever
\* and none is delivered twice
C26_AllDelivered ==
  /\ [][LeavesOnce /\ AllHanded]_vars
  /\ EveryEntryLeaves

\* C26: with the flush and processIncomingQueue intervals firing and the clock
\* moving, every outbound entry is eventually taken out by a flush exactly
\* once and sent then if its connection is open, and every inbound entry is
\* eventually taken out by a drain exactly once and handed to
\* handleClientMessage then if and only if it parses as JSON; no entry stays
\* queued forever and none is delivered twice
C26_Delivered ==
  /\ [][LeavesOnce /\ ParsedHanded]_vars
  /\ EveryEntryLeaves

\* a drain has taken out a payload that does not parse together with one that
\* does, a packet waits in the outbound queue, and the clock has run past the
\* last of the client's messages
C26_Witness ==
  /\ lastDrain.q = "in"
  /\ \E i, j \in 1..Len(lastDrain.entries) :
       ~lastDrain.entries[i].handed /\ lastDrain.entries[j].handed
  /\ outgoingQueue # << >>
  /\ now > StopTimeV

=============================================================================
